---------------------------- MODULE Spec2Model ----------------------------
(***************************************************************************)
(* Knowledg-RAG ingestion pipeline: per-chunk extraction, entity           *)
(* canonicalization, relation validation and the Neo4j graph writer.       *)
(*                                                                         *)
(* Text is modelled as a sequence of one-character strings so that         *)
(* str.lower() and str.strip() are computed, not assumed.                  *)
(***************************************************************************)
EXTENDS Naturals, Sequences, FiniteSets, TLC

VARIABLES
    extraction_results,  \* pipeline.py: the list handed from stage to stage
    before,              \* the list as it was when the last stage was entered
    stage,               \* "extracted" | "canonicalized" | "validated"
    llm_outcome,         \* one model call: it raises, or the text it returns
    extracted,           \* what extract_entities_and_relations did with it
    chunk_ids,           \* extract_from_chunks: the ids of the batch
    llm,                 \* per chunk, the outcome of its model call
    task,                \* per chunk, the state of its pool task
    future,              \* per chunk, the outcome of its finished task
    yielded,             \* the futures as_completed has handed out
    results,             \* extract_from_chunks: the list being returned
    epc,                 \* extract_from_chunks: where the caller is
    graph,               \* the Neo4j store
    ncalls,              \* build_pure_graph calls with a fresh document so far
    last_call,           \* the arguments of the last call, as it left them
    redo,                \* the last call repeated the one before it
    mention_list,        \* _batch_write_pure_graph: mentions, when it is long
    pipeline,            \* DocumentPipeline.process_documents: its locals
    ingest,              \* ingestion_graph.invoke: the state and the next node
    retrieval,           \* search_knowledge_graph: the store's answers, the result
    cleaning,            \* clean_text: a text, and what one and two calls make of it
    started,             \* per chunk, the model calls started for it so far
    prior                \* extract_from_chunks: an earlier call on the same batch

stageVars == <<extraction_results, before, stage>>

parseVars == <<llm_outcome, extracted>>

extractVars == <<chunk_ids, llm, task, future, yielded, results, epc>>

graphVars == <<graph, ncalls, last_call, redo, mention_list>>

runVars == <<pipeline, ingest, retrieval>>

cleanVars == <<cleaning>>

poolVars == <<started, prior>>

vars == <<stageVars, parseVars, extractVars, graphVars, runVars, cleanVars, poolVars>>

---------------------------------------------------------------------------
(* Bounds of the stage-function model *)

MaxResults == 2
MaxItems == 3

(* Bounds of the extraction model *)

MaxRespLen == 4
MaxChunks == 3
MaxPoolChunks == 6
MaxRunChunks == 2

\* ThreadPoolExecutor(max_workers=5)
max_workers == 5

(* Bounds of the graph-writer model *)

MaxCalls == 2
MaxGraphItems == 2
MaxWriteRels == 1
MaxFailures == 1
MaxPages == 2
PageChunks == 3

(* Bounds of the orchestration models *)

MaxDocs == 3
MaxPipeItems == 1

(* Bound of the text-cleaner model *)

MaxTextLen == 5

---------------------------------------------------------------------------
(* Text *)

NoneVal == "None"

\* str.lower() on one character of the model's alphabet
LowerChar(c) ==
    CASE c = "A" -> "a"
      [] c = "B" -> "b"
      [] OTHER -> c

\* str.lower()
lower(s) == [i \in 1..Len(s) |-> LowerChar(s[i])]

IsSpace(c) == c \in {" ", "\n"}

RECURSIVE lstrip(_)
lstrip(s) ==
    IF s = <<>> THEN <<>>
    ELSE IF IsSpace(Head(s)) THEN lstrip(Tail(s)) ELSE s

RECURSIVE rstrip(_)
rstrip(s) ==
    IF s = <<>> THEN <<>>
    ELSE IF IsSpace(s[Len(s)]) THEN rstrip(SubSeq(s, 1, Len(s) - 1)) ELSE s

\* str.strip()
strip(s) == rstrip(lstrip(s))

\* entity["name"].lower().strip()
NormName(name) == strip(lower(name))

\* Python truthiness of a name (text): only the empty string is falsy
FalsyName(v) == v = <<>>

\* Python truthiness of rel.get("type"): None (the key is missing) and "" are falsy
FalsyType(v) == v = "" \/ v = NoneVal

---------------------------------------------------------------------------
(* Stage 1: app.utils.text_cleaner.clean_text, on a text of the characters *)
(* below: a word character, two whitespace characters, a special character *)
(* and two punctuation marks                                               *)

WordChars == {"a"}

PunctuationChars == {".", "!"}

TextChars == WordChars \cup {" ", "\n"} \cup {"#"} \cup PunctuationChars

\* line 18: re.sub(r'\s+', ' ', text)
RECURSIVE sub_whitespace(_)
sub_whitespace(text) ==
    IF text = <<>> THEN <<>>
    ELSE IF IsSpace(Head(text))
         THEN <<" ">> \o sub_whitespace(lstrip(text))
         ELSE <<Head(text)>> \o sub_whitespace(Tail(text))

\* line 21: re.sub(r'[^\w\s.,!?;:()\-\']', '', text)
sub_special(text) ==
    SelectSeq(text, LAMBDA c : c \in WordChars \/ IsSpace(c) \/ c \in PunctuationChars)

\* line 24: re.sub(r'([.,!?;:])\1+', r'\1', text)
RECURSIVE sub_repeated(_)
sub_repeated(text) ==
    IF Len(text) < 2 THEN text
    ELSE IF Head(text) \in PunctuationChars /\ text[2] = Head(text)
         THEN sub_repeated(Tail(text))
         ELSE <<Head(text)>> \o sub_repeated(Tail(text))

\* lines 18-29
CleanText(text) == strip(sub_repeated(sub_special(sub_whitespace(text))))

---------------------------------------------------------------------------
(* Stage 4: DocumentPipeline.canonicalize_entities *)

\* EntityMapInsert done wrongly: the last literal seen wins
EntityMapInsertLastSeen(entity_map, norm_name, name) ==
    [k \in DOMAIN entity_map \cup {norm_name} |->
        IF k = norm_name THEN name ELSE entity_map[k]]

\* EntityMapInsert done wrongly: the literal is stored with a space added
EntityMapInsertPadded(entity_map, norm_name, name) ==
    IF norm_name \in DOMAIN entity_map
    THEN entity_map
    ELSE [k \in DOMAIN entity_map \cup {norm_name} |->
            IF k = norm_name THEN name \o <<" ">> ELSE entity_map[k]]

\* if norm_name not in entity_map: entity_map[norm_name] = entity["name"]
EntityMapInsert(entity_map, norm_name, name) ==
    IF norm_name \in DOMAIN entity_map
    THEN entity_map
    ELSE [k \in DOMAIN entity_map \cup {norm_name} |->
            IF k = norm_name THEN name ELSE entity_map[k]]

\* the loop over res["entities"]: returns the rewritten entities and the map
RECURSIVE CanonEntities(_, _, _)
CanonEntities(entities, done, entity_map) ==
    IF entities = <<>> THEN [entities |-> done, entity_map |-> entity_map]
    ELSE LET entity == Head(entities)
             norm_name == NormName(entity.name)
             m == EntityMapInsert(entity_map, norm_name, entity.name)
         IN  CanonEntities(Tail(entities),
                           Append(done, [entity EXCEPT !.name = m[norm_name]]),
                           m)

\* the body of the loop over res["relations"]
CanonRelation(rel, entity_map) ==
    LET source_norm == NormName(rel.source)
        target_norm == NormName(rel.target)
        r1 == IF source_norm \in DOMAIN entity_map
              THEN [rel EXCEPT !.source = entity_map[source_norm]]
              ELSE rel
    IN  IF target_norm \in DOMAIN entity_map
        THEN [r1 EXCEPT !.target = entity_map[target_norm]]
        ELSE r1

\* the outer loop over extraction_results, one pass, the map carried along
RECURSIVE CanonResults(_, _, _)
CanonResults(res_list, done, entity_map) ==
    IF res_list = <<>> THEN done
    ELSE LET res == Head(res_list)
             ce == CanonEntities(res.entities, <<>>, entity_map)
             rels == [i \in 1..Len(res.relations) |->
                        CanonRelation(res.relations[i], ce.entity_map)]
         IN  CanonResults(Tail(res_list),
                          Append(done, [res EXCEPT !.entities = ce.entities,
                                                   !.relations = rels]),
                          ce.entity_map)

EmptyMap == [k \in {} |-> <<>>]

canonicalize_entities(res_list) == CanonResults(res_list, <<>>, EmptyMap)

---------------------------------------------------------------------------
(* Stage 5: DocumentPipeline.validate_relations *)

\* KeepRelation done wrongly: rule 2 (no self-loops) left out
KeepRelationNoRule2(rel) == ~(FalsyName(rel.source) \/ FalsyName(rel.target))

\* rules 1 and 2: the two `continue` branches
KeepRelation(rel) ==
    /\ ~(FalsyName(rel.source) \/ FalsyName(rel.target))
    /\ rel.source # rel.target

\* rule 3: if not rel.get("type"): rel["type"] = "RELATED_TO"
DefaultType(rel) ==
    IF FalsyType(rel.type) THEN [rel EXCEPT !.type = "RELATED_TO"] ELSE rel

\* the loop over res["relations"], building valid_relations
RECURSIVE ValidRelations(_, _)
ValidRelations(relations, valid_relations) ==
    IF relations = <<>> THEN valid_relations
    ELSE LET rel == Head(relations)
         IN  IF KeepRelation(rel)
             THEN ValidRelations(Tail(relations),
                                 Append(valid_relations, DefaultType(rel)))
             ELSE ValidRelations(Tail(relations), valid_relations)

validate_relations(res_list) ==
    [i \in 1..Len(res_list) |->
        [res_list[i] EXCEPT !.relations = ValidRelations(res_list[i].relations, <<>>)]]

---------------------------------------------------------------------------
(* The values the language model can put into an extraction *)

Acme == <<"A">>
acmeSp == <<"a", " ">>
Bob == <<"B">>

NamePool == {Acme, acmeSp, Bob}
TypePool == {"ORG", "PERSON"}

\* entity["properties"]: a map from property keys to values, here with no key
NoProps == [k \in {} |-> <<>>]

EntityPool == {[name |-> n, type |-> t, properties |-> NoProps] :
                  n \in NamePool, t \in TypePool}

\* relations as the canonicalizer sees them: any two names, one type
CanonRelPool == {[source |-> s, target |-> t, type |-> "USES"] :
                    s \in NamePool, t \in NamePool}

\* relations as the validator sees them: empty endpoints, missing or empty type
ValidRelPool == {[source |-> s, target |-> t, type |-> ty] :
                    s \in {<<>>, Acme}, t \in {<<>>, Acme, Bob},
                    ty \in {NoneVal, "", "USES"}}

\* the entities of a results list in iteration order
RECURSIVE FlatEntities(_)
FlatEntities(res_list) ==
    IF res_list = <<>> THEN <<>>
    ELSE Head(res_list).entities \o FlatEntities(Tail(res_list))

RECURSIVE SumItems(_)
SumItems(res_list) ==
    IF res_list = <<>> THEN 0
    ELSE Len(Head(res_list).entities) + Len(Head(res_list).relations)
         + SumItems(Tail(res_list))

EmptyResult(chunk_id) == [chunk_id |-> chunk_id, entities |-> <<>>, relations |-> <<>>]

---------------------------------------------------------------------------
(* The language model's reply, as tokens: a markdown fence, the word json, *)
(* whitespace, two JSON object texts, a JSON array text, and prose         *)

\* the three-backtick markdown fence
Fence == "FENCE"
JsonTag == "json"
Space == " "
ObjA == "{A}"
ObjB == "{B}"
Arr == "[]"
Prose == "x"

Tokens == {Fence, JsonTag, Space, ObjA, ObjB, Arr, Prose}

\* the texts json.loads accepts
JsonTexts == {ObjA, ObjB, Arr}

\* what json.loads makes of each: a dict with entities and relations, or a list
JsonValue(t) ==
    CASE t = ObjA ->
            [kind |-> "dict",
             entities |-> <<[name |-> Acme, type |-> "ORG", properties |-> NoProps]>>,
             relations |-> <<>>]
      [] t = ObjB ->
            [kind |-> "dict",
             entities |-> <<[name |-> acmeSp, type |-> "ORG", properties |-> NoProps],
                            [name |-> Bob, type |-> "PERSON", properties |-> NoProps]>>,
             relations |-> <<[source |-> Bob, target |-> acmeSp, type |-> "USES"]>>]
      [] OTHER -> [kind |-> "list", entities |-> <<>>, relations |-> <<>>]

\* {"entities": [], "relations": []}
EmptyExtraction == [kind |-> "dict", entities |-> <<>>, relations |-> <<>>]

Responses == UNION {[1..n -> Tokens] : n \in 0..MaxRespLen}

\* self.llm.invoke(prompt): it raises, or .content is a text
LLMRaises == [raises |-> TRUE, content |-> <<>>]

LLMReturns(content) == [raises |-> FALSE, content |-> content]

\* how a call ends: a value is returned, or an exception leaves it
Returned(v) == [raised |-> FALSE, value |-> v]

Raised == [raised |-> TRUE, value |-> EmptyExtraction]

---------------------------------------------------------------------------
(* KnowledgeGraphBuilder.extract_entities_and_relations *)

\* response.strip() on tokens
StripSpace(r) ==
    LET RECURSIVE L(_), R(_)
        L(x) == IF x # <<>> /\ Head(x) = Space THEN L(Tail(x)) ELSE x
        R(x) == IF x # <<>> /\ x[Len(x)] = Space
                THEN R(SubSeq(x, 1, Len(x) - 1)) ELSE x
    IN  R(L(r))

\* response.split(fence)[1] for a response that starts with the fence: the
\* text between the first fence and the next one (or the end)
RECURSIVE UpToFence(_)
UpToFence(r) ==
    IF r = <<>> \/ Head(r) = Fence THEN <<>>
    ELSE <<Head(r)>> \o UpToFence(Tail(r))

\* DropJsonTag done wrongly: the language tag is left in place
KeepJsonTag(seg) == seg

\* if response.startswith("json"): response = response[4:]
DropJsonTag(seg) ==
    IF seg # <<>> /\ Head(seg) = JsonTag THEN Tail(seg) ELSE seg

\* lines 57-62: strip, take the fenced part, drop the tag, strip
CleanResponse(content) ==
    LET response == StripSpace(content)
    IN  IF response # <<>> /\ Head(response) = Fence
        THEN StripSpace(DropJsonTag(UpToFence(Tail(response))))
        ELSE response

\* json.loads: one JSON text and nothing else, or JSONDecodeError
json_loads(text) ==
    IF Len(text) = 1 /\ text[1] \in JsonTexts
    THEN Returned(JsonValue(text[1]))
    ELSE Raised

\* the body of the try block, lines 55-65
ExtractBody(outcome) ==
    IF outcome.raises THEN Raised
    ELSE json_loads(CleanResponse(outcome.content))

\* extract_entities_and_relations done wrongly: no except clause
ExtractNoExcept(outcome) == ExtractBody(outcome)

\* try: ... except Exception: return {"entities": [], "relations": []}
extract_entities_and_relations(outcome) ==
    LET r == ExtractBody(outcome)
    IN  IF r.raised THEN Returned(EmptyExtraction) ELSE r

---------------------------------------------------------------------------
(* KnowledgeGraphBuilder.extract_from_chunks *)

\* result["chunk_id"] = chunk_id: item assignment works on a dict only
\* (on a list it is a TypeError)
process_chunk_extraction(outcome, chunk_id) ==
    LET r == extract_entities_and_relations(outcome)
    IN  IF r.raised THEN Raised
        ELSE IF r.value.kind # "dict" THEN Raised
        ELSE Returned([chunk_id |-> chunk_id,
                       entities |-> r.value.entities,
                       relations |-> r.value.relations])

\* chunk ids are uuid4 strings: distinct, and never falsy
ChunkId(i) == i

\* the replies the model gives to the chunks of a batch
ChunkOutcomes ==
    {LLMRaises} \cup {LLMReturns(<<t>>) : t \in {ObjA, ObjB, Arr, Prose}}

Running == {i \in DOMAIN task : task[i] = "running"}

---------------------------------------------------------------------------
(* The Neo4j store: nodes with one label and a property map, node i being  *)
(* nodes[i]; directed typed relationships between nodes.  Each operator    *)
(* below is one Cypher clause as the queries of kg_builder.py use it.      *)

\* issued: the write queries of _batch_write_pure_graph the store was sent,
\* in order, each with its rows
EmptyGraph == [nodes |-> <<>>, rels |-> {}, issued |-> <<>>]

HasProp(node, key, val) == key \in DOMAIN node.props /\ node.props[key] = val

\* MATCH (n:label {key: val})
MatchLabelled(g, label, key, val) ==
    {i \in DOMAIN g.nodes : g.nodes[i].label = label /\ HasProp(g.nodes[i], key, val)}

\* MATCH (n {name: val}): any label
MatchNamed(g, val) ==
    {i \in DOMAIN g.nodes : HasProp(g.nodes[i], "name", val)}

\* MERGE (n:label {key: val}): the matching nodes, or one new node
MergeNode(g, label, key, val) ==
    IF MatchLabelled(g, label, key, val) # {}
    THEN [graph |-> g, bound |-> MatchLabelled(g, label, key, val)]
    ELSE [graph |-> [g EXCEPT !.nodes =
                        Append(@, [label |-> label, props |-> (key :> val)])],
          bound |-> {Len(g.nodes) + 1}]

\* SET n += map: the map's keys are written over the node's properties
SetProps(g, bound, map) ==
    [g EXCEPT !.nodes =
        [i \in DOMAIN g.nodes |->
            IF i \in bound THEN [g.nodes[i] EXCEPT !.props = map @@ @]
            ELSE g.nodes[i]]]

\* MERGE (a)-[:type]->(b) for every bound pair
MergeRels(g, srcs, dsts, type) ==
    [g EXCEPT !.rels = @ \cup {[src |-> a, dst |-> b, type |-> type] :
                                  a \in srcs, b \in dsts}]

---------------------------------------------------------------------------
(* KnowledgeGraphBuilder._batch_write_pure_graph *)

\* key = (entity["name"], entity["type"])
EntityKey(entity) == <<entity.name, entity.type>>

\* entity.get("properties", {})
Properties(entity) ==
    IF "properties" \in DOMAIN entity THEN entity.properties ELSE NoProps

\* lines 153-157: all_entities keeps the first entity of a key, and later
\* entities of the key update its properties (dict.update)
AddToAllEntities(all_entities, entity) ==
    IF \E i \in DOMAIN all_entities : EntityKey(all_entities[i]) = EntityKey(entity)
    THEN LET i == CHOOSE i \in DOMAIN all_entities :
                      EntityKey(all_entities[i]) = EntityKey(entity)
         IN  [all_entities EXCEPT ![i].properties = Properties(entity) @@ @]
    ELSE Append(all_entities, entity)

\* lines 152-160 raise KeyError: entity["name"] or entity["type"] of an entity
\* without the field (line 153), or all_entities[key]["properties"] of a
\* first entity without properties when its key comes again (line 155)
RECURSIVE CollectRaises(_, _)
CollectRaises(ents, all_entities) ==
    IF ents = <<>> THEN FALSE
    ELSE LET e == Head(ents)
         IN  IF "name" \notin DOMAIN e \/ "type" \notin DOMAIN e THEN TRUE
             ELSE IF \E i \in DOMAIN all_entities :
                        /\ EntityKey(all_entities[i]) = EntityKey(e)
                        /\ "properties" \notin DOMAIN all_entities[i]
             THEN TRUE
             ELSE CollectRaises(Tail(ents), AddToAllEntities(all_entities, e))

\* line 166: entity_list, one row per key
EntityList(all_entities) ==
    [i \in DOMAIN all_entities |->
        [name |-> all_entities[i].name, type |-> all_entities[i].type,
         properties |-> Properties(all_entities[i])]]

RECURSIVE CollectEntities(_, _)
CollectEntities(ents, all_entities) ==
    IF ents = <<>> THEN all_entities
    ELSE CollectEntities(Tail(ents), AddToAllEntities(all_entities, Head(ents)))

RECURSIVE FlatRelations(_)
FlatRelations(res_list) ==
    IF res_list = <<>> THEN <<>>
    ELSE Head(res_list).relations \o FlatRelations(Tail(res_list))

\* if chunk_id: a chunk id of 0 stands for a result without chunk_id
RECURSIVE Mentions(_)
Mentions(res_list) ==
    IF res_list = <<>> THEN <<>>
    ELSE LET res == Head(res_list)
         IN  (IF res.chunk_id # 0
              THEN [j \in 1..Len(res.entities) |->
                       [chunk_id |-> res.chunk_id,
                        entity_name |-> res.entities[j].name,
                        entity_type |-> res.entities[j].type]]
              ELSE <<>>) \o Mentions(Tail(res_list))

\* the keys of a dict built by first insertion, in insertion order
RECURSIVE InOrder(_, _)
InOrder(keys, seen) ==
    IF keys = <<>> THEN seen
    ELSE IF \E i \in DOMAIN seen : seen[i] = Head(keys)
         THEN InOrder(Tail(keys), seen)
         ELSE InOrder(Tail(keys), Append(seen, Head(keys)))

\* rel.get("type", "RELATED_TO")
RelType(rel) == IF rel.type = NoneVal THEN "RELATED_TO" ELSE rel.type

\* lines 176-180: a Cypher clause works on the rows the clause before it
\* produced and on the store it left. MERGE (e:`etype` {name: row.name}) binds
\* e for every row, a later row seeing the nodes of the earlier ones ...
RECURSIVE MergeRows(_, _, _, _)
MergeRows(g, etype, batch, bound) ==
    IF batch = <<>> THEN [graph |-> g, bound |-> bound]
    ELSE LET m == MergeNode(g, etype, "name", Head(batch).name)
         IN  MergeRows(m.graph, etype, Tail(batch), Append(bound, m.bound))

\* ... and SET e += row.properties then writes each row's map over its e
RECURSIVE SetRows(_, _, _)
SetRows(g, batch, bound) ==
    IF batch = <<>> THEN g
    ELSE SetRows(SetProps(g, Head(bound), Head(batch).properties),
                 Tail(batch), Tail(bound))

EntityQuery(g, etype, batch) ==
    LET m == MergeRows(g, etype, batch, <<>>)
    IN  SetRows(m.graph, batch, m.bound)

\* RelationQuery done wrongly: the endpoints are merged, not matched, so a
\* name no node has gets a node
RECURSIVE RelationQueryMerging(_, _, _)
RelationQueryMerging(g, rtype, batch) ==
    IF batch = <<>> THEN g
    ELSE LET row == Head(batch)
             a == MergeNode(g, "Entity", "name", row.source)
             b == MergeNode(a.graph, "Entity", "name", row.target)
         IN  RelationQueryMerging(MergeRels(b.graph, a.bound, b.bound, rtype),
                                  rtype, Tail(batch))

\* lines 195-201, one row: MATCH source and target by name, MERGE the edge
RECURSIVE RelationQuery(_, _, _)
RelationQuery(g, rtype, batch) ==
    IF batch = <<>> THEN g
    ELSE LET row == Head(batch)
         IN  RelationQuery(MergeRels(g, MatchNamed(g, row.source),
                                        MatchNamed(g, row.target), rtype),
                           rtype, Tail(batch))

\* lines 209-214: for every row MATCH the section by id and the entity by
\* name, any label, and MERGE (s)-[:MENTIONS]->(e); the matches read no edge,
\* so the rows do not depend on each other
MentionsQuery(g, batch) ==
    [g EXCEPT !.rels = @ \cup UNION {
        {[src |-> a, dst |-> b, type |-> "MENTIONS"] :
            a \in MatchLabelled(g, "Section", "id", batch[k].chunk_id),
            b \in MatchNamed(g, batch[k].entity_name)} : k \in DOMAIN batch}]

\* self.graph.query of one write: a failing query changes nothing and raises;
\* the log keeps the store as the query found it and as it left it
Query(g, after, failing, q, batch) ==
    LET done == IF q \in failing THEN g ELSE after
    IN  [done EXCEPT
            !.issued = Append(g.issued,
                              [q |-> q, batch |-> batch, failed |-> q \in failing,
                               found |-> [nodes |-> g.nodes, rels |-> g.rels],
                               left |-> [nodes |-> done.nodes, rels |-> done.rels]])]

\* WriteEntityBatches done wrongly: one try around the loop, so the first
\* failing batch ends it
RECURSIVE WriteEntityBatchesOneTry(_, _, _, _)
WriteEntityBatchesOneTry(g, types, entity_list, failing) ==
    IF types = <<>> THEN g
    ELSE LET etype == Head(types)
             batch == SelectSeq(entity_list, LAMBDA e : e.type = etype)
             sent == Query(g, EntityQuery(g, etype, batch), failing,
                           <<"entities", etype>>, batch)
         IN  IF <<"entities", etype>> \in failing THEN sent
             ELSE WriteEntityBatchesOneTry(sent, Tail(types), entity_list, failing)

\* lines 175-184: one query per entity type, a failure only printed
RECURSIVE WriteEntityBatches(_, _, _, _)
WriteEntityBatches(g, types, entity_list, failing) ==
    IF types = <<>> THEN g
    ELSE LET etype == Head(types)
             batch == SelectSeq(entity_list, LAMBDA e : e.type = etype)
         IN  WriteEntityBatches(
                 Query(g, EntityQuery(g, etype, batch), failing, <<"entities", etype>>, batch),
                 Tail(types), entity_list, failing)

\* lines 194-205: one query per relation type, a failure only printed
RECURSIVE WriteRelationBatches(_, _, _, _)
WriteRelationBatches(g, types, all_relations, failing) ==
    IF types = <<>> THEN g
    ELSE LET rtype == Head(types)
             batch == SelectSeq(all_relations, LAMBDA r : RelType(r) = rtype)
         IN  WriteRelationBatches(
                 Query(g, RelationQuery(g, rtype, batch), failing, <<"relations", rtype>>, batch),
                 Tail(types), all_relations, failing)

\* batch_size = 1000
batch_size == 1000

\* lines 215-221: pages of batch_size rows inside one try: the first failing
\* page ends the loop
RECURSIVE WriteMentionPages(_, _, _, _)
WriteMentionPages(g, mentions, failing, page) ==
    IF mentions = <<>> THEN g
    ELSE LET n == IF Len(mentions) < batch_size THEN Len(mentions) ELSE batch_size
             batch == SubSeq(mentions, 1, n)
             q == <<"mentions", ToString(page)>>
             sent == Query(g, MentionsQuery(g, batch), failing, q, batch)
         IN  IF q \in failing THEN sent
             ELSE WriteMentionPages(sent, SubSeq(mentions, n + 1, Len(mentions)),
                                    failing, page + 1)

batch_write_pure_graph(g, res_list, failing) ==
    LET all_entities == CollectEntities(FlatEntities(res_list), <<>>)
        entity_list == EntityList(all_entities)
        all_relations == FlatRelations(res_list)
        mentions == Mentions(res_list)
        etypes == InOrder([i \in DOMAIN entity_list |-> entity_list[i].type], <<>>)
        rtypes == InOrder([i \in DOMAIN all_relations |-> RelType(all_relations[i])], <<>>)
        g1 == WriteEntityBatches(g, etypes, entity_list, failing)
        g2 == WriteRelationBatches(g1, rtypes, all_relations, failing)
    IN  WriteMentionPages(g2, mentions, failing, 1)

\* all_entities[key] is the entity object of the results list itself, so
\* the update of line 155 is left in the caller's list: the first entity of
\* each key ends with the merged properties
RECURSIVE MutatedEntities(_, _, _)
MutatedEntities(ents, all_entities, seen) ==
    IF ents = <<>> THEN <<>>
    ELSE LET e == Head(ents)
             merged == CHOOSE a \in {all_entities[i] : i \in DOMAIN all_entities} :
                          EntityKey(a) = EntityKey(e)
         IN  <<IF EntityKey(e) \in seen THEN e ELSE merged>>
             \o MutatedEntities(Tail(ents), all_entities, seen \cup {EntityKey(e)})

RECURSIVE Regroup(_, _)
Regroup(res_list, flat) ==
    IF res_list = <<>> THEN <<>>
    ELSE LET n == Len(Head(res_list).entities)
         IN  <<[Head(res_list) EXCEPT !.entities = SubSeq(flat, 1, n)]>>
             \o Regroup(Tail(res_list), SubSeq(flat, n + 1, Len(flat)))

ResultsAfterWrite(res_list) ==
    LET flat == FlatEntities(res_list)
    IN  Regroup(res_list, MutatedEntities(flat, CollectEntities(flat, <<>>), {}))

---------------------------------------------------------------------------
(* KnowledgeGraphBuilder.build_pure_graph *)

\* lines 123-130, one row: MATCH the document, MERGE the section, SET its
\* text, MERGE HAS_SECTION
RECURSIVE SectionQuery(_, _, _)
SectionQuery(g, doc_id, chunks) ==
    IF chunks = <<>> THEN g
    ELSE LET c == Head(chunks)
             docs == MatchLabelled(g, "Document", "id", doc_id)
         IN  IF docs = {} THEN SectionQuery(g, doc_id, Tail(chunks))
             ELSE LET m == MergeNode(g, "Section", "id", c.id)
                      g1 == SetProps(m.graph, m.bound, ("text" :> c.text))
                  IN  SectionQuery(MergeRels(g1, docs, m.bound, "HAS_SECTION"),
                                   doc_id, Tail(chunks))

\* the call: the store it leaves, whether it raised, and the caller's
\* results list as the call left it
build_pure_graph(g, doc_id, chunks, res_list, failing) ==
    IF <<"document", "">> \in failing
    THEN [graph |-> g, raised |-> TRUE, results |-> res_list]
    ELSE LET g1 == MergeNode(g, "Document", "id", doc_id).graph
             g2 == SectionQuery(g1, doc_id, chunks)
         IN  IF <<"sections", "">> \in failing
             THEN [graph |-> g1, raised |-> TRUE, results |-> res_list]
             ELSE IF CollectRaises(FlatEntities(res_list), <<>>)
             THEN [graph |-> g2, raised |-> TRUE, results |-> res_list]
             ELSE [graph |-> batch_write_pure_graph(g2, res_list, failing),
                   raised |-> FALSE,
                   results |-> ResultsAfterWrite(res_list)]

---------------------------------------------------------------------------
(* The parts of the state a specification does not use stay as they start *)

StageInit ==
    /\ extraction_results = <<>>
    /\ before = <<>>
    /\ stage = "extracted"

ParseIdle ==
    /\ llm_outcome = LLMRaises
    /\ extracted = <<>>

ExtractIdle ==
    /\ chunk_ids = <<>>
    /\ llm = <<>>
    /\ task = <<>>
    /\ future = <<>>
    /\ yielded = {}
    /\ results = <<>>
    /\ epc = "idle"

GraphIdle ==
    /\ graph = EmptyGraph
    /\ ncalls = 0
    /\ last_call = [doc_id |-> 0, chunks |-> <<>>, results |-> <<>>, given |-> <<>>,
                    failing |-> {}, raised |-> FALSE, mark |-> 0]
    /\ redo = FALSE
    /\ mention_list = <<>>

RunIdle ==
    /\ pipeline = [pc |-> "idle"]
    /\ ingest = [node |-> "idle"]
    /\ retrieval = [pc |-> "idle"]

CleanIdle == cleaning = [pc |-> "idle"]

PoolIdle ==
    /\ started = <<>>
    /\ prior = <<>>

---------------------------------------------------------------------------
(* The stage functions applied to every bounded batch *)

\* one more chunk result arrives from extraction
AppendResult ==
    /\ stage = "extracted"
    /\ Len(extraction_results) < MaxResults
    /\ extraction_results' =
          Append(extraction_results,
                 EmptyResult(ChunkId(Len(extraction_results) + 1)))
    /\ UNCHANGED <<before, stage, parseVars, extractVars, graphVars, runVars, cleanVars, poolVars>>

\* the newest chunk result mentions one more entity
AppendEntity ==
    /\ stage = "extracted"
    /\ extraction_results # <<>>
    /\ SumItems(extraction_results) < MaxItems
    /\ \E e \in EntityPool :
          LET n == Len(extraction_results)
          IN  extraction_results' =
                [extraction_results EXCEPT ![n].entities = Append(@, e)]
    /\ UNCHANGED <<before, stage, parseVars, extractVars, graphVars, runVars, cleanVars, poolVars>>

\* the newest chunk result states one more relation
AppendCanonRelation ==
    /\ stage = "extracted"
    /\ extraction_results # <<>>
    /\ SumItems(extraction_results) < MaxItems
    /\ \E r \in CanonRelPool :
          LET n == Len(extraction_results)
          IN  extraction_results' =
                [extraction_results EXCEPT ![n].relations = Append(@, r)]
    /\ UNCHANGED <<before, stage, parseVars, extractVars, graphVars, runVars, cleanVars, poolVars>>

AppendValidRelation ==
    /\ stage = "extracted"
    /\ extraction_results # <<>>
    /\ SumItems(extraction_results) < MaxItems
    /\ \E r \in ValidRelPool :
          LET n == Len(extraction_results)
          IN  extraction_results' =
                [extraction_results EXCEPT ![n].relations = Append(@, r)]
    /\ UNCHANGED <<before, stage, parseVars, extractVars, graphVars, runVars, cleanVars, poolVars>>

Canonicalize ==
    /\ stage = "extracted"
    /\ before' = extraction_results
    /\ extraction_results' = canonicalize_entities(extraction_results)
    /\ stage' = "canonicalized"
    /\ UNCHANGED <<parseVars, extractVars, graphVars, runVars, cleanVars, poolVars>>

Validate ==
    /\ stage \in {"extracted", "canonicalized"}
    /\ before' = extraction_results
    /\ extraction_results' = validate_relations(extraction_results)
    /\ stage' = "validated"
    /\ UNCHANGED <<parseVars, extractVars, graphVars, runVars, cleanVars, poolVars>>

CanonNext ==
    \/ AppendResult
    \/ AppendEntity
    \/ AppendCanonRelation
    \/ Canonicalize

CanonInit == StageInit /\ ParseIdle /\ ExtractIdle /\ GraphIdle /\ RunIdle /\ CleanIdle /\ PoolIdle

SpecCanon == CanonInit /\ [][CanonNext]_vars

ValidNext ==
    \/ AppendResult
    \/ AppendEntity
    \/ AppendValidRelation
    \/ Validate

ValidInit == StageInit /\ ParseIdle /\ ExtractIdle /\ GraphIdle /\ RunIdle /\ CleanIdle /\ PoolIdle

SpecValidate == ValidInit /\ [][ValidNext]_vars

\* canonicalize_entities is called on the list it returned
CanonicalizeAgain ==
    /\ stage = "canonicalized"
    /\ before' = extraction_results
    /\ extraction_results' = canonicalize_entities(extraction_results)
    /\ stage' = "recanonicalized"
    /\ UNCHANGED <<parseVars, extractVars, graphVars, runVars, cleanVars, poolVars>>

RecanonNext ==
    \/ CanonNext
    \/ CanonicalizeAgain

RecanonInit == StageInit /\ ParseIdle /\ ExtractIdle /\ GraphIdle /\ RunIdle /\ CleanIdle /\ PoolIdle

SpecRecanon == RecanonInit /\ [][RecanonNext]_vars

---------------------------------------------------------------------------
(* clean_text on every bounded text, and again on what it returned *)

Texts == UNION {[1..n -> TextChars] : n \in 0..MaxTextLen}

CleanInit ==
    cleaning \in {[pc |-> "given", text |-> t, once |-> <<>>, twice |-> <<>>] : t \in Texts}

\* clean_text(x)
CleanOnce ==
    /\ cleaning.pc = "given"
    /\ cleaning' = [cleaning EXCEPT !.once = CleanText(cleaning.text), !.pc = "cleaned"]
    /\ UNCHANGED <<stageVars, parseVars, extractVars, graphVars, runVars, poolVars>>

\* clean_text(clean_text(x))
CleanTwice ==
    /\ cleaning.pc = "cleaned"
    /\ cleaning' = [cleaning EXCEPT !.twice = CleanText(cleaning.once), !.pc = "recleaned"]
    /\ UNCHANGED <<stageVars, parseVars, extractVars, graphVars, runVars, poolVars>>

CleanNext ==
    \/ CleanOnce
    \/ CleanTwice

CleanSpecInit == CleanInit /\ StageInit /\ ParseIdle /\ ExtractIdle /\ GraphIdle /\ RunIdle /\ PoolIdle

SpecClean == CleanSpecInit /\ [][CleanNext]_vars

---------------------------------------------------------------------------
(* One call of extract_entities_and_relations on every bounded reply *)

ParseInit ==
    /\ llm_outcome \in {LLMRaises} \cup {LLMReturns(r) : r \in Responses}
    /\ extracted = <<>>

\* the call; `extracted` holds how it ended
ExtractOne ==
    /\ extracted = <<>>
    /\ extracted' = <<extract_entities_and_relations(llm_outcome)>>
    /\ UNCHANGED <<llm_outcome, stageVars, extractVars, graphVars, runVars, cleanVars, poolVars>>

ParseNext == ExtractOne

ParseSpecInit == ParseInit /\ StageInit /\ ExtractIdle /\ GraphIdle /\ RunIdle /\ CleanIdle /\ PoolIdle

SpecParse == ParseSpecInit /\ [][ParseNext]_vars

---------------------------------------------------------------------------
(* extract_from_chunks: the caller, the pool of max_workers threads and    *)
(* the tasks                                                               *)

\* the call is entered with a batch of n chunks: line 85
Entered(n) ==
    /\ chunk_ids = [i \in 1..n |-> ChunkId(i)]
    /\ llm = [i \in 1..n |-> "pending"]
    /\ task = [i \in 1..n |-> "new"]
    /\ future = [i \in 1..n |-> "pending"]
    /\ started = [i \in 1..n |-> 0]
    /\ yielded = {}
    /\ results = <<>>
    /\ epc = "submit"
    /\ prior = <<>>

ExtractInit == \E n \in 1..MaxChunks : Entered(n)

\* the replies the model can give to chunk i: in a second call on the same
\* batch the reply it gave in the first; in a batch of more than MaxChunks
\* chunks one reply, an extraction
Replies(i) ==
    IF prior # <<>> THEN {prior[1].llm[i]}
    ELSE IF Len(chunk_ids) > MaxChunks THEN {LLMReturns(<<ObjA>>)}
    ELSE ChunkOutcomes

\* line 89: executor.submit for the next chunk, in input order
Submit ==
    /\ epc = "submit"
    /\ \E i \in DOMAIN task :
          /\ task[i] = "new"
          /\ \A j \in 1..(i - 1) : task[j] # "new"
          /\ task' = [task EXCEPT ![i] = "queued"]
    /\ UNCHANGED <<chunk_ids, llm, future, yielded, results, epc,
                   stageVars, parseVars, graphVars, runVars, cleanVars, poolVars>>

\* line 91: every chunk is submitted, the caller enters as_completed
AwaitCompleted ==
    /\ epc = "submit"
    /\ \A i \in DOMAIN task : task[i] # "new"
    /\ epc' = "collect"
    /\ UNCHANGED <<chunk_ids, llm, task, future, yielded, results,
                   stageVars, parseVars, graphVars, runVars, cleanVars, poolVars>>

\* StartTask done wrongly: a thread for every task, however many are running
StartTaskNoPool(i) ==
    /\ task[i] = "queued"
    /\ \A j \in 1..(i - 1) : task[j] # "queued"
    /\ task' = [task EXCEPT ![i] = "running"]
    /\ started' = [started EXCEPT ![i] = @ + 1]
    /\ UNCHANGED <<chunk_ids, llm, future, yielded, results, epc, prior,
                   stageVars, parseVars, graphVars, runVars, cleanVars>>

\* a free pool thread takes the oldest queued task and calls the model
StartTask(i) ==
    /\ task[i] = "queued"
    /\ \A j \in 1..(i - 1) : task[j] # "queued"
    /\ Cardinality(Running) < max_workers
    /\ task' = [task EXCEPT ![i] = "running"]
    /\ started' = [started EXCEPT ![i] = @ + 1]
    /\ UNCHANGED <<chunk_ids, llm, future, yielded, results, epc, prior,
                   stageVars, parseVars, graphVars, runVars, cleanVars>>

\* the model call of task i ends and process_chunk_extraction finishes
FinishTask(i) ==
    /\ task[i] = "running"
    /\ \E o \in Replies(i) :
          /\ llm' = [llm EXCEPT ![i] = o]
          /\ future' = [future EXCEPT ![i] =
                           process_chunk_extraction(o, chunk_ids[i])]
    /\ task' = [task EXCEPT ![i] = "done"]
    /\ UNCHANGED <<chunk_ids, yielded, results, epc, stageVars, parseVars, graphVars, runVars, cleanVars, poolVars>>

\* Collect done wrongly: the futures are waited for in the order of submission
CollectInInputOrder(i) ==
    /\ epc = "collect"
    /\ task[i] = "done"
    /\ i \notin yielded
    /\ \A j \in 1..(i - 1) : j \in yielded
    /\ yielded' = yielded \cup {i}
    /\ results' = IF future[i].raised THEN results
                  ELSE Append(results, future[i].value)
    /\ UNCHANGED <<chunk_ids, llm, task, future, epc, stageVars, parseVars, graphVars, runVars, cleanVars, poolVars>>

\* lines 91-98: as_completed hands out a finished future; future.result()
\* gives the value, which is appended, or re-raises, which is only printed
Collect(i) ==
    /\ epc = "collect"
    /\ task[i] = "done"
    /\ i \notin yielded
    /\ yielded' = yielded \cup {i}
    /\ results' = IF future[i].raised THEN results
                  ELSE Append(results, future[i].value)
    /\ UNCHANGED <<chunk_ids, llm, task, future, epc, stageVars, parseVars, graphVars, runVars, cleanVars, poolVars>>

\* ReturnResults done wrongly: the list is returned while tasks still run
ReturnResultsEarly ==
    /\ epc = "collect"
    /\ epc' = "returned"
    /\ UNCHANGED <<chunk_ids, llm, task, future, yielded, results,
                   stageVars, parseVars, graphVars, runVars, cleanVars, poolVars>>

\* line 100: every future was handed out, the pool is shut down
ReturnResults ==
    /\ epc = "collect"
    /\ yielded = DOMAIN task
    /\ epc' = "returned"
    /\ UNCHANGED <<chunk_ids, llm, task, future, yielded, results,
                   stageVars, parseVars, graphVars, runVars, cleanVars, poolVars>>

ExtractNext ==
    \/ Submit
    \/ AwaitCompleted
    \/ \E i \in DOMAIN task : StartTask(i)
    \/ \E i \in DOMAIN task : FinishTask(i)
    \/ \E i \in DOMAIN task : Collect(i)
    \/ ReturnResults

ExtractSpecInit == ExtractInit /\ StageInit /\ ParseIdle /\ GraphIdle /\ RunIdle /\ CleanIdle

SpecExtract == ExtractSpecInit /\ [][ExtractNext]_vars

---------------------------------------------------------------------------
(* extract_from_chunks on a batch of more chunks than the pool has threads *)

PoolInit == \E n \in 1..MaxPoolChunks : Entered(n)

PoolSpecInit == PoolInit /\ StageInit /\ ParseIdle /\ GraphIdle /\ RunIdle /\ CleanIdle

SpecPool == PoolSpecInit /\ [][ExtractNext]_vars

---------------------------------------------------------------------------
(* extract_from_chunks called twice on the same chunks, the model giving   *)
(* each chunk the same reply both times                                    *)

RunsInit == \E n \in 1..MaxRunChunks : Entered(n)

\* the first call has returned; its replies and its list are kept and the
\* second call is entered
CallAgain ==
    /\ epc = "returned"
    /\ prior = <<>>
    /\ prior' = <<[llm |-> llm, results |-> results]>>
    /\ llm' = [i \in DOMAIN chunk_ids |-> "pending"]
    /\ task' = [i \in DOMAIN chunk_ids |-> "new"]
    /\ future' = [i \in DOMAIN chunk_ids |-> "pending"]
    /\ started' = [i \in DOMAIN chunk_ids |-> 0]
    /\ yielded' = {}
    /\ results' = <<>>
    /\ epc' = "submit"
    /\ UNCHANGED <<chunk_ids, stageVars, parseVars, graphVars, runVars, cleanVars>>

RunsNext ==
    \/ ExtractNext
    \/ CallAgain

RunsSpecInit == RunsInit /\ StageInit /\ ParseIdle /\ GraphIdle /\ RunIdle /\ CleanIdle

SpecRuns == RunsSpecInit /\ [][RunsNext]_vars

---------------------------------------------------------------------------
(* build_pure_graph called on a store that earlier calls have filled *)

\* properties that carry the key the entity is merged on
Renaming == ("name" :> Bob)

GraphEntityPool ==
    {[name |-> n, type |-> t, properties |-> NoProps] :
        n \in {Acme, Bob}, t \in TypePool}
    \cup {[name |-> Acme, type |-> t, properties |-> Renaming] : t \in TypePool}

GraphRelPool == {[source |-> Acme, target |-> Bob, type |-> "USES"]}

SeqsUpTo(S, n) == UNION {[1..k -> S] : k \in 0..n}

\* the extraction of one chunk: at most MaxGraphItems entities and relations
GraphResultPool(chunk_id) ==
    {r \in [chunk_id : {chunk_id},
            entities : SeqsUpTo(GraphEntityPool, MaxGraphItems),
            relations : SeqsUpTo(GraphRelPool, MaxGraphItems)] :
        Len(r.entities) + Len(r.relations) <= MaxGraphItems}

\* doc_id = str(uuid.uuid4()): the k-th document gets an id no other has
DocId(k) == k

\* the chunks of the k-th document: one chunk, with an id of its own
ChunksOf(k) == <<[id |-> ChunkId(k), text |-> "text"]>>

\* a new document is written: fresh ids, any extraction, no store failure
BuildGraph ==
    /\ ncalls < MaxCalls
    /\ \E res \in GraphResultPool(ChunkId(ncalls + 1)) :
          LET r == build_pure_graph(graph, DocId(ncalls + 1), ChunksOf(ncalls + 1),
                                    <<res>>, {})
          IN  /\ graph' = r.graph
              /\ last_call' = [doc_id |-> DocId(ncalls + 1),
                               chunks |-> ChunksOf(ncalls + 1),
                               results |-> r.results, given |-> <<res>>,
                               failing |-> {}, raised |-> r.raised,
                               mark |-> Len(graph.issued)]
    /\ ncalls' = ncalls + 1
    /\ redo' = FALSE
    /\ UNCHANGED <<mention_list, stageVars, parseVars, extractVars, runVars, cleanVars, poolVars>>

\* the caller calls again with the very arguments of the last call
Rebuild ==
    /\ ncalls >= 1
    /\ ~redo
    /\ LET r == build_pure_graph(graph, last_call.doc_id, last_call.chunks,
                                 last_call.results, {})
       IN  /\ graph' = r.graph
           /\ last_call' = [last_call EXCEPT !.results = r.results,
                                            !.given = last_call.results,
                                            !.raised = r.raised,
                                            !.mark = Len(graph.issued)]
    /\ redo' = TRUE
    /\ UNCHANGED <<ncalls, mention_list, stageVars, parseVars, extractVars, runVars, cleanVars, poolVars>>

GraphNext ==
    \/ BuildGraph
    \/ Rebuild

GraphInit == GraphIdle /\ StageInit /\ ParseIdle /\ ExtractIdle /\ RunIdle /\ CleanIdle /\ PoolIdle

SpecGraph == GraphInit /\ [][GraphNext]_vars

---------------------------------------------------------------------------
(* build_pure_graph on a store that fails some writes, with extractions *)
(* the model returned without a field                                    *)

WriteEntityPool ==
    {[name |-> Acme, type |-> "ORG", properties |-> NoProps],
     [name |-> Bob, type |-> "PERSON", properties |-> NoProps],
     [type |-> "ORG", properties |-> NoProps],
     [name |-> Acme, properties |-> NoProps],
     [name |-> Acme, type |-> "ORG"]}

WriteRelPool == {[source |-> Acme, target |-> Bob, type |-> t] : t \in {"USES", "OWNS"}}

\* a result of the chunk of the call, or one without chunk_id
WriteResultPool(chunk_id) ==
    [chunk_id : {chunk_id, 0},
     entities : SeqsUpTo(WriteEntityPool, MaxGraphItems),
     relations : SeqsUpTo(WriteRelPool, MaxWriteRels)]

\* the queries of a call that the store can fail
FailurePool ==
    {<<"document", "">>, <<"sections", "">>, <<"mentions", "1">>}
    \cup {<<"entities", t>> : t \in TypePool}
    \cup {<<"relations", t>> : t \in {"USES", "OWNS"}}

Failures == {F \in SUBSET FailurePool : Cardinality(F) <= MaxFailures}

WriteGraph ==
    /\ ncalls < MaxCalls
    /\ \E res \in WriteResultPool(ChunkId(ncalls + 1)), failing \in Failures :
          LET r == build_pure_graph(graph, DocId(ncalls + 1), ChunksOf(ncalls + 1),
                                    <<res>>, failing)
          IN  /\ graph' = r.graph
              /\ last_call' = [doc_id |-> DocId(ncalls + 1),
                               chunks |-> ChunksOf(ncalls + 1),
                               results |-> r.results, given |-> <<res>>,
                               failing |-> failing, raised |-> r.raised,
                               mark |-> Len(graph.issued)]
    /\ ncalls' = ncalls + 1
    /\ UNCHANGED <<redo, mention_list, stageVars, parseVars, extractVars, runVars, cleanVars, poolVars>>

WriteNext == WriteGraph

WriteInit == GraphIdle /\ StageInit /\ ParseIdle /\ ExtractIdle /\ RunIdle /\ CleanIdle /\ PoolIdle

SpecWrite == WriteInit /\ [][WriteNext]_vars

---------------------------------------------------------------------------
(* build_pure_graph with more mentions than one page holds: the results  *)
(* of a document in which every result names the same single entity      *)

RowCounts ==
    {0, 1} \cup UNION {{batch_size * k - 1, batch_size * k, batch_size * k + 1} :
                          k \in 1..MaxPages}

\* the chunks of the k-th document
ManyChunks(k) ==
    [c \in 1..PageChunks |-> [id |-> ChunkId((k - 1) * PageChunks + c), text |-> "text"]]

\* lines 149-160 on n results, the j-th of them of chunk (j mod PageChunks) + 1
\* of the document and holding the entity Acme alone: one mention each
ManyMentions(k, n) ==
    [j \in 1..n |-> [chunk_id |-> ManyChunks(k)[(j % PageChunks) + 1].id,
                     entity_name |-> Acme, entity_type |-> "ORG"]]

\* ... and one entity row
OneEntity(n) ==
    IF n = 0 THEN <<>> ELSE <<[name |-> Acme, type |-> "ORG", properties |-> NoProps]>>

PageFailures ==
    {F \in SUBSET {<<"mentions", ToString(p)>> : p \in 1..(MaxPages + 1)} :
        Cardinality(F) <= MaxFailures}

BuildManyMentions ==
    /\ ncalls < MaxCalls
    /\ \E n \in RowCounts, failing \in PageFailures :
          LET g1 == MergeNode(graph, "Document", "id", DocId(ncalls + 1)).graph
              g2 == SectionQuery(g1, DocId(ncalls + 1), ManyChunks(ncalls + 1))
              g3 == WriteEntityBatches(g2, InOrder([i \in DOMAIN OneEntity(n) |-> "ORG"], <<>>),
                                       OneEntity(n), failing)
          IN  /\ graph' = WriteMentionPages(g3, ManyMentions(ncalls + 1, n), failing, 1)
              /\ mention_list' = ManyMentions(ncalls + 1, n)
              /\ last_call' = [doc_id |-> DocId(ncalls + 1),
                               chunks |-> ManyChunks(ncalls + 1),
                               results |-> <<>>, given |-> <<>>,
                               failing |-> failing, raised |-> FALSE,
                               mark |-> Len(graph.issued)]
    /\ ncalls' = ncalls + 1
    /\ UNCHANGED <<redo, stageVars, parseVars, extractVars, runVars, cleanVars, poolVars>>

PagesNext == BuildManyMentions

PagesInit == GraphIdle /\ StageInit /\ ParseIdle /\ ExtractIdle /\ RunIdle /\ CleanIdle /\ PoolIdle

SpecPages == PagesInit /\ [][PagesNext]_vars

---------------------------------------------------------------------------
(* DocumentPipeline.process_documents *)

\* the documents a caller passes: a text, a text of whitespace only, and a
\* value that is not a string
DocPool == {"text", " ", NoneVal}

\* re.sub on a value that is not a string
TypeErrorMsg == "expected string or bytes-like object"

\* str(KeyError(key))
KeyErrorMsg(key) == "'" \o key \o "'"

\* str(e) of the exception of a failing store query
StoreErrorMsg == "ServiceUnavailable"

\* app.utils.text_cleaner.clean_text: whitespace runs become one space and
\* the ends are stripped
clean_text(text) == IF text = " " THEN "" ELSE text

\* a text longer than chunk_size
LongText == "long text"

\* chunk_text for the k-th text chunked: split_text gives no chunk for an
\* empty text, two for the long text and here one for any other; every chunk
\* gets an id of its own, str(uuid.uuid4())
chunk_text(text, k) ==
    IF text = "" THEN <<>>
    ELSE IF text = LongText
         THEN <<[id |-> ChunkId(2 * k - 1), text |-> "long"],
                [id |-> ChunkId(2 * k), text |-> "text"]>>
         ELSE <<[id |-> ChunkId(2 * k - 1), text |-> text]>>

PipeEntityPool ==
    {[name |-> Acme, type |-> "ORG", properties |-> NoProps],
     [type |-> "ORG", properties |-> NoProps],
     [name |-> Acme, properties |-> NoProps]}

\* a relation between two entities, and a self-loop
PipeRelPool == {[source |-> Acme, target |-> t, type |-> "USES"] : t \in {Acme, Bob}}

\* extract_kg: what extract_from_chunks can return for the chunks: a result
\* for the chunk, or none when its worker raised
extract_kg(chunks) ==
    IF chunks = <<>> THEN {<<>>}
    ELSE {<<>>} \cup
         {<<r>> : r \in [chunk_id : {chunks[1].id},
                         entities : SeqsUpTo(PipeEntityPool, MaxPipeItems),
                         relations : SeqsUpTo(PipeRelPool, MaxPipeItems)]}

\* canonicalize_entities raises KeyError at entity["name"] (line 72)
CanonRaises(res_list) ==
    \E i \in DOMAIN FlatEntities(res_list) : "name" \notin DOMAIN FlatEntities(res_list)[i]

\* str(e) of the exception build_pure_graph re-raises
BuildErrorMsg(res_list, failing) ==
    IF <<"document", "">> \in failing \/ <<"sections", "">> \in failing
    THEN StoreErrorMsg
    ELSE IF \E i \in DOMAIN FlatEntities(res_list) :
                "type" \notin DOMAIN FlatEntities(res_list)[i]
    THEN KeyErrorMsg("type")
    ELSE KeyErrorMsg("properties")

\* one stage of one document, and whether it raised
Ran(p, name, raised) ==
    [p EXCEPT !.trace = Append(@, [doc |-> p.i, stage |-> name, raised |-> raised])]

\* the except block done wrongly: the status is left as it was
except_block_no_status(p, msg) ==
    [p EXCEPT !.results.error = msg, !.pc = "returned"]

\* the except block done wrongly: the try is inside the loop, which goes on
except_block_in_loop(p, msg) ==
    IF p.i < Len(p.documents)
    THEN [p EXCEPT !.results.status = "error", !.results.error = msg,
                   !.i = @ + 1, !.pc = "clean"]
    ELSE [p EXCEPT !.results.status = "error", !.results.error = msg,
                   !.pc = "returned"]

\* lines 173-179: status and error are set and results is returned
except_block(p, msg) ==
    [p EXCEPT !.results.status = "error", !.results.error = msg, !.pc = "returned"]

\* for doc_text in documents: the next document, or lines 170-171
for_documents(p) ==
    IF p.i < Len(p.documents)
    THEN [p EXCEPT !.i = @ + 1, !.pc = "clean"]
    ELSE [p EXCEPT !.results.status = "success", !.pc = "returned"]

\* lines 139-146: the locals of a call. base: the texts earlier calls of
\* this process chunked; outputs: what extract_kg returned, document by
\* document; first: the store and the outputs of a call that came before
Entry(documents, base, first) ==
    [pc |-> "idle", documents |-> documents, i |-> 0,
     results |-> [status |-> "pending",
                  total_documents |-> Len(documents),
                  total_chunks |-> 0, error |-> NoneVal],
     cleaned_text |-> "", doc_id |-> 0, chunks |-> <<>>,
     extraction_results |-> <<>>, trace |-> <<>>,
     base |-> base, outputs |-> <<>>, first |-> first]

ProcessDocuments ==
    /\ pipeline.pc = "idle"
    /\ \E documents \in SeqsUpTo(DocPool, MaxDocs) :
          pipeline' = for_documents(Entry(documents, 0, <<>>))
    /\ UNCHANGED <<ingest, retrieval, stageVars, parseVars, extractVars, graphVars, cleanVars, poolVars>>

\* line 149
Clean ==
    /\ pipeline.pc = "clean"
    /\ LET doc_text == pipeline.documents[pipeline.i]
       IN  pipeline' =
              IF doc_text = NoneVal
              THEN except_block(Ran(pipeline, "clean", TRUE), TypeErrorMsg)
              ELSE [Ran(pipeline, "clean", FALSE) EXCEPT
                       !.cleaned_text = clean_text(doc_text), !.pc = "chunk"]
    /\ UNCHANGED <<ingest, retrieval, stageVars, parseVars, extractVars, graphVars, cleanVars, poolVars>>

\* lines 152-156
Chunk ==
    /\ pipeline.pc = "chunk"
    /\ LET chunks == chunk_text(pipeline.cleaned_text, pipeline.base + pipeline.i)
       IN  pipeline' = [Ran(pipeline, "chunk", FALSE) EXCEPT
                           !.doc_id = DocId(pipeline.base + pipeline.i),
                           !.chunks = chunks,
                           !.results.total_chunks = @ + Len(chunks),
                           !.pc = "extract"]
    /\ UNCHANGED <<ingest, retrieval, stageVars, parseVars, extractVars, graphVars, cleanVars, poolVars>>

\* line 159
Extract ==
    /\ pipeline.pc = "extract"
    /\ \E res_list \in extract_kg(pipeline.chunks) :
          pipeline' = [Ran(pipeline, "extract", FALSE) EXCEPT
                          !.extraction_results = res_list,
                          !.outputs = Append(@, res_list),
                          !.pc = "canonicalize"]
    /\ UNCHANGED <<ingest, retrieval, stageVars, parseVars, extractVars, graphVars, cleanVars, poolVars>>

\* line 162
CanonicalizeStage ==
    /\ pipeline.pc = "canonicalize"
    /\ pipeline' =
          IF CanonRaises(pipeline.extraction_results)
          THEN except_block(Ran(pipeline, "canonicalize", TRUE), KeyErrorMsg("name"))
          ELSE [Ran(pipeline, "canonicalize", FALSE) EXCEPT
                   !.extraction_results = canonicalize_entities(@), !.pc = "validate"]
    /\ UNCHANGED <<ingest, retrieval, stageVars, parseVars, extractVars, graphVars, cleanVars, poolVars>>

\* line 165
ValidateStage ==
    /\ pipeline.pc = "validate"
    /\ pipeline' = [Ran(pipeline, "validate", FALSE) EXCEPT
                       !.extraction_results = validate_relations(@), !.pc = "build"]
    /\ UNCHANGED <<ingest, retrieval, stageVars, parseVars, extractVars, graphVars, cleanVars, poolVars>>

\* line 168, and the loop going on or ending
Build ==
    /\ pipeline.pc = "build"
    /\ \E failing \in Failures :
          LET r == build_pure_graph(graph, pipeline.doc_id, pipeline.chunks,
                                    pipeline.extraction_results, failing)
          IN  /\ graph' = r.graph
              /\ pipeline' =
                    IF r.raised
                    THEN except_block(Ran(pipeline, "build", TRUE),
                                      BuildErrorMsg(pipeline.extraction_results, failing))
                    ELSE for_documents([Ran(pipeline, "build", FALSE) EXCEPT
                                           !.extraction_results = r.results])
    /\ UNCHANGED <<ncalls, last_call, redo, mention_list, ingest, retrieval,
                   stageVars, parseVars, extractVars, cleanVars, poolVars>>

PipelineNext ==
    \/ ProcessDocuments
    \/ Clean
    \/ Chunk
    \/ Extract
    \/ CanonicalizeStage
    \/ ValidateStage
    \/ Build

PipelineInit == RunIdle /\ GraphIdle /\ StageInit /\ ParseIdle /\ ExtractIdle /\ CleanIdle /\ PoolIdle

SpecPipeline == PipelineInit /\ [][PipelineNext]_vars

---------------------------------------------------------------------------
(* process_documents on one document, its extraction task by task *)

\* process_documents([doc_text])
ProcessOneDocument ==
    /\ pipeline.pc = "idle"
    /\ \E doc_text \in {"text", LongText} :
          pipeline' = for_documents(Entry(<<doc_text>>, 0, <<>>))
    /\ UNCHANGED <<ingest, retrieval, stageVars, parseVars, extractVars, graphVars,
                   cleanVars, poolVars>>

\* line 159, going in: extract_kg calls extract_from_chunks with the ids of
\* the chunks
ExtractKgCall ==
    /\ pipeline.pc = "extract"
    /\ pipeline' = [pipeline EXCEPT !.pc = "extracting"]
    /\ chunk_ids' = [i \in DOMAIN pipeline.chunks |-> pipeline.chunks[i].id]
    /\ llm' = [i \in DOMAIN pipeline.chunks |-> "pending"]
    /\ task' = [i \in DOMAIN pipeline.chunks |-> "new"]
    /\ future' = [i \in DOMAIN pipeline.chunks |-> "pending"]
    /\ started' = [i \in DOMAIN pipeline.chunks |-> 0]
    /\ yielded' = {}
    /\ results' = <<>>
    /\ epc' = "submit"
    /\ UNCHANGED <<prior, ingest, retrieval, stageVars, parseVars, graphVars, cleanVars>>

\* line 159, coming back: the list returned is bound to extraction_results
ExtractKgReturn ==
    /\ pipeline.pc = "extracting"
    /\ epc = "returned"
    /\ pipeline' = [Ran(pipeline, "extract", FALSE) EXCEPT
                       !.extraction_results = results,
                       !.outputs = Append(@, results),
                       !.pc = "canonicalize"]
    /\ epc' = "idle"
    /\ UNCHANGED <<chunk_ids, llm, task, future, yielded, results, ingest, retrieval,
                   stageVars, parseVars, graphVars, cleanVars, poolVars>>

JoinNext ==
    \/ ProcessOneDocument
    \/ Clean
    \/ Chunk
    \/ ExtractKgCall
    \/ ExtractNext
    \/ ExtractKgReturn
    \/ CanonicalizeStage
    \/ ValidateStage
    \/ Build

JoinInit == RunIdle /\ GraphIdle /\ StageInit /\ ParseIdle /\ ExtractIdle /\ CleanIdle /\ PoolIdle

SpecJoin == JoinInit /\ [][JoinNext]_vars

---------------------------------------------------------------------------
(* ingestion_graph: clean -> chunk -> extract -> build -> END *)

\* a node returned: its update is merged into the state
Merge(update) ==
    [ingest EXCEPT !.state = update @@ @, !.ran = Append(@, ingest.node)]

\* a node raised: the exception leaves ingestion_graph.invoke, no state returned
Escapes(msg) ==
    [ingest EXCEPT !.node = "raised", !.raised = ingest.node, !.error = msg,
                   !.ran = Append(@, ingest.node)]

\* server.py lines 102-113
Invoke ==
    /\ ingest.node = "idle"
    /\ \E raw_documents \in SeqsUpTo(DocPool, MaxDocs) :
          ingest' = [node |-> "clean",
                     state |-> [raw_documents |-> raw_documents,
                                cleaned_documents |-> <<>>,
                                chunks |-> <<>>,
                                extraction_results |-> <<>>,
                                doc_ids |-> <<>>,
                                status |-> "started",
                                error |-> ""],
                     ran |-> <<>>, built |-> <<>>, calls |-> <<>>,
                     raised |-> "", error |-> ""]
    /\ UNCHANGED <<pipeline, retrieval, stageVars, parseVars, extractVars, graphVars, cleanVars, poolVars>>

clean_node ==
    /\ ingest.node = "clean"
    /\ LET raw_docs == ingest.state.raw_documents
       IN  ingest' =
              IF \E k \in DOMAIN raw_docs : raw_docs[k] = NoneVal
              THEN Escapes(TypeErrorMsg)
              ELSE [Merge([cleaned_documents |->
                               [k \in DOMAIN raw_docs |-> clean_text(raw_docs[k])],
                           status |-> "cleaned"])
                    EXCEPT !.node = "chunk"]
    /\ UNCHANGED <<pipeline, retrieval, stageVars, parseVars, extractVars, graphVars, cleanVars, poolVars>>

\* lines 33-45: the chunks of all documents in one list, tagged with doc_id
RECURSIVE AllChunks(_, _)
AllChunks(cleaned_docs, k) ==
    IF k > Len(cleaned_docs) THEN <<>>
    ELSE [c \in DOMAIN chunk_text(cleaned_docs[k], k) |->
             [text |-> chunk_text(cleaned_docs[k], k)[c].text,
              id |-> chunk_text(cleaned_docs[k], k)[c].id,
              doc_id |-> DocId(k)]]
         \o AllChunks(cleaned_docs, k + 1)

chunk_node ==
    /\ ingest.node = "chunk"
    /\ LET cleaned_docs == ingest.state.cleaned_documents
       IN  ingest' = [Merge([chunks |-> AllChunks(cleaned_docs, 1),
                             doc_ids |-> [k \in DOMAIN cleaned_docs |-> DocId(k)],
                             status |-> "chunked"])
                      EXCEPT !.node = "extract"]
    /\ UNCHANGED <<pipeline, retrieval, stageVars, parseVars, extractVars, graphVars, cleanVars, poolVars>>

\* extract_from_chunks over all chunks: for every chunk a result or none
RECURSIVE ExtractAll(_)
ExtractAll(chunks) ==
    IF chunks = <<>> THEN {<<>>}
    ELSE {one \o rest : one \in extract_kg(<<Head(chunks)>>),
                        rest \in ExtractAll(Tail(chunks))}

\* lines 65-67: entity["name"] = entity["name"].strip()
StripNames(res_list) ==
    [i \in DOMAIN res_list |->
        [res_list[i] EXCEPT !.entities =
            [j \in DOMAIN @ |-> [@[j] EXCEPT !.name = strip(@)]]]]

extract_node ==
    /\ ingest.node = "extract"
    /\ \E res_list \in ExtractAll(ingest.state.chunks) :
          ingest' =
              IF \E j \in DOMAIN FlatEntities(res_list) :
                     "name" \notin DOMAIN FlatEntities(res_list)[j]
              THEN Escapes(KeyErrorMsg("name"))
              ELSE [Merge([extraction_results |-> StripNames(res_list),
                           status |-> "extracted"])
                    EXCEPT !.node = "build"]
    /\ UNCHANGED <<pipeline, retrieval, stageVars, parseVars, extractVars, graphVars, cleanVars, poolVars>>

\* lines 94-101: the chunks and the results of one document
DocChunks(chunks, d_id) == SelectSeq(chunks, LAMBDA c : c.doc_id = d_id)

\* DocResults done wrongly: every document gets every result
DocResultsUnfiltered(chunks, res_all, d_id) == res_all

DocResults(chunks, res_all, d_id) ==
    SelectSeq(res_all,
              LAMBDA res : /\ res.chunk_id # 0
                           /\ \E c \in DOMAIN chunks :
                                 chunks[c].id = res.chunk_id /\ chunks[c].doc_id = d_id)

\* lines 104-105: build_pure_graph for each document, until one raises; the
\* store fails the queries of fail.failing in the call of document fail.doc
RECURSIVE BuildDocs(_, _, _, _, _, _)
BuildDocs(g, st, k, fail, built, res_all) ==
    IF k > Len(st.doc_ids)
    THEN [graph |-> g, raised |-> FALSE, msg |-> "", built |-> built]
    ELSE LET d_id == st.doc_ids[k]
             res_list == DocResults(st.chunks, res_all, d_id)
             failing == IF fail.doc = k THEN fail.failing ELSE {}
             r == build_pure_graph(g, d_id, DocChunks(st.chunks, d_id), res_list, failing)
             call == [doc_id |-> d_id, chunks |-> DocChunks(st.chunks, d_id),
                      results |-> res_list, raised |-> r.raised]
         IN  IF r.raised
             THEN [graph |-> r.graph, raised |-> TRUE,
                   msg |-> BuildErrorMsg(res_list, failing),
                   built |-> Append(built, call)]
             ELSE BuildDocs(r.graph, st, k + 1, fail, Append(built, call), res_all)

build_node ==
    /\ ingest.node = "build"
    /\ \E fail \in [doc : 1..MaxDocs, failing : Failures] :
          LET b == BuildDocs(graph, ingest.state, 1, fail, <<>>,
                             ingest.state.extraction_results)
          IN  /\ graph' = b.graph
              /\ ingest' =
                    [(IF b.raised
                      THEN Merge([status |-> "failed", error |-> b.msg])
                      ELSE Merge([status |-> "completed"]))
                     EXCEPT !.node = "END",
                            !.built = [k \in DOMAIN b.built |-> b.built[k].results],
                            !.calls = b.built,
                            !.raised = IF b.raised THEN "build" ELSE ""]
    /\ UNCHANGED <<ncalls, last_call, redo, mention_list, pipeline, retrieval,
                   stageVars, parseVars, extractVars, cleanVars, poolVars>>

IngestNext ==
    \/ Invoke
    \/ clean_node
    \/ chunk_node
    \/ extract_node
    \/ build_node

IngestInit == RunIdle /\ GraphIdle /\ StageInit /\ ParseIdle /\ ExtractIdle /\ CleanIdle /\ PoolIdle

SpecIngest == IngestInit /\ [][IngestNext]_vars

---------------------------------------------------------------------------
(* retrieve_subgraph and search_knowledge_graph *)

\* the text of a name
RECURSIVE Str(_)
Str(name) == IF name = <<>> THEN "" ELSE Head(name) \o Str(Tail(name))

\* a CONTAINS b, on texts as sequences of characters
Contains(a, b) ==
    \E k \in 0..Len(a) : k + Len(b) <= Len(a) /\ SubSeq(a, k + 1, k + Len(b)) = b

\* MATCH (e) WHERE e.name IS NOT NULL AND toLower(e.name) CONTAINS toLower($query)
Matching(g, query) ==
    {i \in DOMAIN g.nodes :
        /\ "name" \in DOMAIN g.nodes[i].props
        /\ Contains(lower(g.nodes[i].props["name"]), lower(query))}

\* limit: int = 5
limit == 5

\* LIMIT 20 of the first query
row_limit == 20

\* LIMIT n: all of the rows, or any n of them
Limited(S, n) ==
    IF Cardinality(S) <= n THEN {S}
    ELSE {T \in SUBSET S : Cardinality(T) = n}

\* a property of a node as the f-string prints it
PropText(node, key) ==
    IF key \notin DOMAIN node.props THEN NoneVal
    ELSE IF key = "name" THEN Str(node.props[key])
    ELSE node.props[key]

\* line 61
ConnectionLine(g, e, relation, neighbor) ==
    "- " \o PropText(g.nodes[e], "name") \o " --[" \o relation \o "]--> "
         \o PropText(g.nodes[neighbor], "name")
         \o " (" \o PropText(g.nodes[neighbor], "type") \o ")"

\* line 66
TextLine(text) == "- ..." \o text \o "..."

\* MATCH (e)-[r]-(neighbor), either direction, formatted
ConnectionLines(g, es) ==
    {ConnectionLine(g, r.src, r.type, r.dst) : r \in {r \in g.rels : r.src \in es}}
    \cup {ConnectionLine(g, r.dst, r.type, r.src) : r \in {r \in g.rels : r.dst \in es}}

\* MATCH (s:Section)-[:MENTIONS]->(e) RETURN DISTINCT s.text, formatted
TextLines(g, es) ==
    {TextLine(g.nodes[r.src].props["text"]) :
        r \in {r \in g.rels : /\ r.type = "MENTIONS"
                              /\ r.dst \in es
                              /\ g.nodes[r.src].label = "Section"}}

\* the rows of a query in the order the store gives them
RECURSIVE Rows(_)
Rows(S) ==
    IF S = {} THEN <<>>
    ELSE LET x == CHOOSE x \in S : TRUE IN <<x>> \o Rows(S \ {x})

\* what the store does with the two queries of one retrieval
StoreOutcomes == {"ok", "connection fails", "graph query fails", "text query fails"}

RetrieveRaised == [raised |-> TRUE, value |-> <<>>]

\* lines 27-68: the body of the try, given the rows the two queries return
RetrieveBody(connections, texts, outcome) ==
    IF outcome # "ok" THEN RetrieveRaised
    ELSE LET graph_results == Rows(connections)
             text_results == Rows(texts)
         IN  Returned(
                 (IF graph_results # <<>>
                  THEN <<"### Knowledge Graph Connections:">> \o graph_results
                  ELSE <<>>)
                 \o (IF text_results # <<>>
                     THEN <<"\n### Relevant Source Text:">> \o text_results
                     ELSE <<>>))

\* retrieve_subgraph done wrongly: no except clause
RetrieveNoExcept(connections, texts, outcome) ==
    RetrieveBody(connections, texts, outcome)

\* try: ... except Exception: return []
retrieve_subgraph(connections, texts, outcome) ==
    LET r == RetrieveBody(connections, texts, outcome)
    IN  IF r.raised THEN Returned(<<>>) ELSE r

Sentinel == "No relevant information found in the knowledge graph."

\* tools.py lines 17-23
search_knowledge_graph(r) ==
    IF r.raised THEN <<"Error searching knowledge graph: ">>
    ELSE IF r.value = <<>> THEN <<Sentinel>>
    ELSE r.value

QueryPool == {<<"a">>, <<"B">>, <<"z">>, <<>>}

Search ==
    /\ \E query \in QueryPool, outcome \in StoreOutcomes :
          \E es \in Limited(Matching(graph, query), limit),
             fs \in Limited(Matching(graph, query), limit) :
              \E connections \in Limited(ConnectionLines(graph, es), row_limit),
                 texts \in Limited(TextLines(graph, fs), limit) :
                  LET r == retrieve_subgraph(connections, texts, outcome)
                  IN  retrieval' = [pc |-> "done", query |-> query,
                                    outcome |-> outcome, store |-> graph,
                                    result |-> r,
                                    answer |-> search_knowledge_graph(r)]
    /\ UNCHANGED <<pipeline, ingest, stageVars, parseVars, extractVars, graphVars, cleanVars, poolVars>>

RetrieveNext ==
    \/ BuildGraph
    \/ Search

RetrieveInit == RunIdle /\ GraphIdle /\ StageInit /\ ParseIdle /\ ExtractIdle /\ CleanIdle /\ PoolIdle

SpecRetrieve == RetrieveInit /\ [][RetrieveNext]_vars

---------------------------------------------------------------------------
(* End to end: process_documents on one document whose extraction yields  *)
(* the entities A and B and the relation A -> B, a second call on the same *)
(* document, and retrieve_subgraph on the store they leave                 *)

\* the properties the model gives the entity A: none, or a name
PairProperties == {NoProps, Renaming}

PairA(props) == [name |-> Acme, type |-> "ORG", properties |-> props]

PairB == [name |-> Bob, type |-> "PERSON", properties |-> NoProps]

\* the relation A -> B, with a type or without
PairRelation(type) == [source |-> Acme, target |-> Bob, type |-> type]

\* what extract_kg returns: for a document of one chunk one result with
\* both entities and the relation; for a document of two chunks A from the
\* first chunk, B and the relation from the second, in either order
PairOutputs(chunks) ==
    IF chunks = <<>> THEN {<<>>}
    ELSE IF Len(chunks) = 1
    THEN {<<[chunk_id |-> chunks[1].id,
             entities |-> <<PairA(props), PairB>>,
             relations |-> <<PairRelation(type)>>]>> :
             props \in PairProperties, type \in {"USES", NoneVal}}
    ELSE UNION {
            LET a == [chunk_id |-> chunks[1].id,
                      entities |-> <<PairA(pt[1])>>, relations |-> <<>>]
                b == [chunk_id |-> chunks[2].id,
                      entities |-> <<PairB>>, relations |-> <<PairRelation(pt[2])>>]
            IN  {<<a, b>>, <<b, a>>} :
            pt \in PairProperties \X {"USES", NoneVal}}

\* the outputs of the first call for the chunks of the second: the same
\* extractions, each with the id of the chunk now in the place of its chunk
Replayed(res_list, base) ==
    [k \in DOMAIN res_list |-> [res_list[k] EXCEPT !.chunk_id = @ + 2 * base]]

\* line 159
ExtractPair ==
    /\ pipeline.pc = "extract"
    /\ \E res_list \in (IF pipeline.first = <<>> THEN PairOutputs(pipeline.chunks)
                         ELSE {Replayed(pipeline.first[1].outputs[pipeline.i],
                                        pipeline.base)}) :
          pipeline' = [Ran(pipeline, "extract", FALSE) EXCEPT
                          !.extraction_results = res_list,
                          !.outputs = Append(@, res_list),
                          !.pc = "canonicalize"]
    /\ UNCHANGED <<ingest, retrieval, stageVars, parseVars, extractVars, graphVars,
                   cleanVars, poolVars>>

\* process_documents has returned success and is called again with the same
\* documents
ProcessAgain ==
    /\ pipeline.pc = "returned"
    /\ pipeline.results.status = "success"
    /\ pipeline.first = <<>>
    /\ pipeline' = for_documents(
          Entry(pipeline.documents, Len(pipeline.documents),
                <<[store |-> graph, outputs |-> pipeline.outputs]>>))
    /\ UNCHANGED <<ingest, retrieval, stageVars, parseVars, extractVars, graphVars,
                   cleanVars, poolVars>>

EndToEndNext ==
    \/ ProcessOneDocument
    \/ Clean
    \/ Chunk
    \/ ExtractPair
    \/ CanonicalizeStage
    \/ ValidateStage
    \/ Build
    \/ ProcessAgain
    \/ Search

EndToEndInit == RunIdle /\ GraphIdle /\ StageInit /\ ParseIdle /\ ExtractIdle /\ CleanIdle /\ PoolIdle

SpecEndToEnd == EndToEndInit /\ [][EndToEndNext]_vars

---------------------------------------------------------------------------
(* The graph writer: the claims *)

EntityNodes == {i \in DOMAIN graph.nodes : "name" \in DOMAIN graph.nodes[i].props}

\* C4: graph write idempotence: calling build_pure_graph a second time with
\* identical arguments and no store failure leaves the store with the same
\* nodes and edges as the first call did.
C4_BuildTwiceSameAsOnce ==
    [][redo' => graph'.nodes = graph.nodes /\ graph'.rels = graph.rels]_vars

\* C5: after any sequence of build_pure_graph calls the store holds at most
\* one entity node for each (name, type) pair.
C5_OneNodePerNameAndType ==
    \A i, j \in EntityNodes :
        (/\ graph.nodes[i].label = graph.nodes[j].label
         /\ graph.nodes[i].props["name"] = graph.nodes[j].props["name"]) => i = j

RelationEdges == {e \in graph.rels : e.src \in EntityNodes /\ e.dst \in EntityNodes}

\* C6: after any sequence of build_pure_graph calls the store holds at most
\* one relation edge for each (source_name, target_name, type) triple, also
\* when two entity nodes of different types share a name.
C6_OneEdgePerNamedTriple ==
    \A e, f \in RelationEdges :
        (/\ e.type = f.type
         /\ graph.nodes[e.src].props["name"] = graph.nodes[f.src].props["name"]
         /\ graph.nodes[e.dst].props["name"] = graph.nodes[f.dst].props["name"])
            => e = f

---------------------------------------------------------------------------
(* Extraction: the claims *)

\* The reply, read as the prompt asks for it: outer whitespace aside it is
\* the JSON text t alone, or it opens with a fence, then an optional json
\* tag, whitespace, t, whitespace, and then ends or meets the closing fence.
RefFencedJson(content, t) ==
    LET N == Len(content)
        ns == {i \in 1..N : content[i] # Space}
    IN  /\ ns # {}
        /\ LET first == CHOOSE i \in ns : \A j \in ns : i <= j
           IN  \/ ns = {first} /\ content[first] = t
               \/ /\ content[first] = Fence
                  /\ \E k \in (first + 1)..N :
                        /\ content[k] = t
                        /\ \A i \in (first + 1)..(k - 1) :
                              \/ content[i] = Space
                              \/ i = first + 1 /\ content[i] = JsonTag
                        /\ \E f \in (k + 1)..(N + 1) :
                              /\ f = N + 1 \/ content[f] = Fence
                              /\ \A i \in (k + 1)..(f - 1) : content[i] = Space

\* the extraction a reply stands for: its JSON value, or nothing
RefExtraction(outcome) ==
    IF ~outcome.raises /\ \E t \in JsonTexts : RefFencedJson(outcome.content, t)
    THEN JsonValue(CHOOSE t \in JsonTexts : RefFencedJson(outcome.content, t))
    ELSE EmptyExtraction

\* C3: extract_entities_and_relations never raises; when the model call
\* fails or the fence-stripped reply is not parseable JSON it returns
\* exactly {entities: [], relations: []}, otherwise the parsed value.
C3_ExtractNeverRaises ==
    extracted # <<>> =>
        /\ ~extracted[1].raised
        /\ extracted[1].value = RefExtraction(llm_outcome)

\* a fenced, tagged reply was unwrapped and parsed
C3_Witness ==
    /\ extracted # <<>>
    /\ llm_outcome = LLMReturns(<<Fence, JsonTag, ObjA, Fence>>)
    /\ extracted[1] = Returned(JsonValue(ObjA))

\* every reply of the batch is an extraction or no JSON at all: no chunk's
\* reply is valid JSON that is not an object
RepliesAreExtractions ==
    \A i \in DOMAIN llm :
        llm[i].raises \/ RefExtraction(llm[i]).kind = "dict"

ResultsFor(i) == {k \in 1..Len(results) : results[k].chunk_id = chunk_ids[i]}

C2_NoChunkMissing ==
    epc = "returned" =>
        \A i \in DOMAIN chunk_ids :
            /\ ResultsFor(i) # {}
            /\ future[i].raised =>
                  \A k \in ResultsFor(i) :
                      results[k].entities = <<>> /\ results[k].relations = <<>>

---------------------------------------------------------------------------
(* Canonicalization and validation: the claims *)

\* the position of the first entity of the flattened batch that has the
\* same key as the entity at position p, under the key function Key(_)
FirstWithKey(ents, p, Key(_)) ==
    CHOOSE q \in 1..p :
        /\ Key(ents[q]) = Key(ents[p])
        /\ \A r \in 1..(q - 1) : Key(ents[r]) # Key(ents[p])

NameKey(e) == NormName(e.name)

NameTypeKey(e) == <<NormName(e.name), e.type>>

C8_CanonicalPerNameAndType ==
    stage = "canonicalized" =>
        LET inE == FlatEntities(before)
            outE == FlatEntities(extraction_results)
        IN  \A p \in 1..Len(inE) :
               outE[p].name = inE[FirstWithKey(inE, p, NameTypeKey)].name

\* what C9 asks of one relation endpoint: the canonical name of the batch's
\* entity with that normalized name, wherever in the batch it appears
EndpointCanonicalInBatch(inE, endIn, endOut) ==
    IF \E p \in 1..Len(inE) : NormName(inE[p].name) = NormName(endIn)
    THEN LET p == CHOOSE p \in 1..Len(inE) :
                     /\ NormName(inE[p].name) = NormName(endIn)
                     /\ \A r \in 1..(p - 1) :
                           NormName(inE[r].name) # NormName(endIn)
         IN  endOut = inE[p].name
    ELSE endOut = endIn

\* C9: after canonicalize_entities every relation endpoint whose normalized
\* form is the normalized name of some entity anywhere in the batch equals
\* that entity's canonical name, also when the entity first appears in a
\* later result than the relation; other endpoints are unchanged.
C9_EndpointsCanonicalAcrossBatch ==
    stage = "canonicalized" =>
        LET inE == FlatEntities(before)
        IN  \A i \in 1..Len(before) :
              \A j \in 1..Len(before[i].relations) :
                 LET rin == before[i].relations[j]
                     rout == extraction_results[i].relations[j]
                 IN  /\ EndpointCanonicalInBatch(inE, rin.source, rout.source)
                     /\ EndpointCanonicalInBatch(inE, rin.target, rout.target)

\* the reference filter of C10, written without the code's helpers
RefKept(rels) ==
    SelectSeq(rels, LAMBDA r : r.source # <<>> /\ r.target # <<>>
                               /\ r.source # r.target)

RefValid(rels) ==
    LET kept == RefKept(rels)
    IN  [k \in 1..Len(kept) |->
            [source |-> kept[k].source,
             target |-> kept[k].target,
             type |-> IF kept[k].type \in {"", NoneVal}
                      THEN "RELATED_TO" ELSE kept[k].type]]

---------------------------------------------------------------------------
(* The graph writer under store failures: the claims *)

\* the queries the last call sent to the store
IssuedNow ==
    {graph.issued[i].q : i \in (last_call.mark + 1)..Len(graph.issued)}

GivenEntities == FlatEntities(last_call.given)

GivenRelations == FlatRelations(last_call.given)

AllFieldsGiven ==
    \A i \in DOMAIN GivenEntities :
        {"name", "type", "properties"} \subseteq DOMAIN GivenEntities[i]

Step1Or2Fails ==
    <<"document", "">> \in last_call.failing \/ <<"sections", "">> \in last_call.failing

GivenMentions ==
    \E i \in DOMAIN last_call.given :
        last_call.given[i].chunk_id # 0 /\ last_call.given[i].entities # <<>>

C16_RaisesIffStep1Or2Fails ==
    ncalls >= 1 => (last_call.raised <=> Step1Or2Fails)

\* C19: no orphan entities: in every store state reachable through ingestion,
\* also when batch writes fail and are skipped or a result has no chunk_id,
\* every entity node has an incoming MENTIONS edge or is an endpoint of a
\* HAS_SECTION or relation edge.
C19_NoOrphanEntities ==
    \A i \in EntityNodes : \E e \in graph.rels : e.dst = i \/ e.src = i


\* C18: after a build_pure_graph call with no store failure, for every
\* extraction result whose chunk_id is one of the document's chunks and every
\* entity of that result, the store has a MENTIONS edge from the Section node
\* of that chunk id to the entity node of that entity's name and type.
C18_EveryEntityMentioned ==
    (ncalls >= 1 /\ last_call.failing = {} /\ AllFieldsGiven) =>
        \A i \in DOMAIN last_call.given :
            LET res == last_call.given[i]
            IN  (\E c \in DOMAIN last_call.chunks : last_call.chunks[c].id = res.chunk_id)
                => \A j \in DOMAIN res.entities :
                      \E e \in graph.rels :
                          /\ e.type = "MENTIONS"
                          /\ e.src \in MatchLabelled(graph, "Section", "id", res.chunk_id)
                          /\ e.dst \in MatchLabelled(graph, res.entities[j].type, "name",
                                                     res.entities[j].name)


\* the MENTIONS pages the last call sent to the store, in order
PagesIssued ==
    SelectSeq(SubSeq(graph.issued, last_call.mark + 1, Len(graph.issued)),
              LAMBDA w : w.q[1] = "mentions")

RECURSIVE RowsOf(_)
RowsOf(pages) ==
    IF pages = <<>> THEN <<>> ELSE Head(pages).batch \o RowsOf(Tail(pages))

\* C17: provenance links are written in pages of at most 1000 rows that
\* cover every mention exactly once, and a store failure while writing one
\* page does not abort the sibling pages: every later page is still written.
C17_EveryPageWritten ==
    ncalls >= 1 =>
        /\ \A p \in DOMAIN PagesIssued : Len(PagesIssued[p].batch) <= 1000
        /\ RowsOf(PagesIssued) = mention_list


---------------------------------------------------------------------------
(* process_documents: the claims *)

SixStages == {"clean", "chunk", "extract", "canonicalize", "validate", "build"}

HasReturned == pipeline.pc = "returned"

\* the stages that raised, as positions of the trace
RaisedAt == {e \in DOMAIN pipeline.trace : pipeline.trace[e].raised}

AllCompleted ==
    \A k \in 1..Len(pipeline.documents), st \in SixStages :
        \E e \in DOMAIN pipeline.trace :
            /\ pipeline.trace[e].doc = k
            /\ pipeline.trace[e].stage = st
            /\ ~pipeline.trace[e].raised

\* C12: process_documents never raises and always returns a result whose
\* status is terminal: 'success' with error unset exactly when every document
\* completed all six stages, 'error' with a non-empty error message when any
\* stage of any document raised; 'pending' is never returned.
C12_TerminalResult ==
    HasReturned =>
        /\ pipeline.results.status \in {"success", "error"}
        /\ pipeline.results.status = "success" <=> AllCompleted
        /\ pipeline.results.status = "success" => pipeline.results.error = NoneVal
        /\ pipeline.results.status = "error" <=> RaisedAt # {}
        /\ pipeline.results.status = "error" =>
              pipeline.results.error \notin {NoneVal, ""}

C12_Witness ==
    /\ HasReturned
    /\ pipeline.results.status = "error"
    /\ pipeline.results.error = KeyErrorMsg("name")
    /\ \E e \in RaisedAt : pipeline.trace[e].doc = 2
    /\ pipeline.results.total_chunks = 2

\* no step takes a node or an edge out of the store
NothingRemoved ==
    /\ Len(graph'.nodes) >= Len(graph.nodes)
    /\ \A n \in DOMAIN graph.nodes : graph'.nodes[n].label = graph.nodes[n].label
    /\ graph.rels \subseteq graph'.rels

\* the call returned right after the stage that raised
StoppedAtFailure ==
    (HasReturned /\ RaisedAt # {}) =>
        /\ pipeline.results.status = "error"
        /\ RaisedAt = {Len(pipeline.trace)}
        /\ \A e \in DOMAIN pipeline.trace :
              pipeline.trace[e].doc <= pipeline.trace[Len(pipeline.trace)].doc

\* C14: no cross-document rollback: when document k of a batch fails at any
\* stage, every node and edge written for documents 1..k-1, and any part of
\* document k already written, is still in the store when the call returns,
\* no stage of documents k+1.. is ever started, and the status is 'error'.
C14_NoRollback == [][NothingRemoved]_vars /\ []StoppedAtFailure

C14_Witness ==
    /\ HasReturned
    /\ Len(pipeline.documents) = 3
    /\ pipeline.results.status = "error"
    /\ pipeline.trace[Len(pipeline.trace)] = [doc |-> 2, stage |-> "build", raised |-> TRUE]
    /\ MatchLabelled(graph, "ORG", "name", Acme) # {}
    /\ MatchLabelled(graph, "Section", "id", ChunkId(1)) # {}
    /\ MatchLabelled(graph, "Section", "id", ChunkId(3)) # {}


---------------------------------------------------------------------------
(* The ingestion graph: the claims *)

\* a relation validate_relations would have let through
Validated(rel) == rel.source # <<>> /\ rel.target # <<>> /\ rel.source # rel.target

\* C11: in every ingestion run, through process_documents or through the
\* compiled ingestion_graph, the stages run in the order clean, chunk,
\* extract, canonicalize, validate, build, so the build stage only receives
\* extraction results that were canonicalized and validated: no self-loop and
\* no empty-endpoint relation reaches the graph writer.
C11_BuildReceivesValidated ==
    ingest.node = "END" =>
        \A b \in DOMAIN ingest.built :
            \A j \in DOMAIN FlatRelations(ingest.built[b]) :
                Validated(FlatRelations(ingest.built[b])[j])

\* C13: in the ingestion graph an exception raised in any stage node (clean,
\* chunk, extract or build) ends the run with final state status 'failed'
\* and an attached error message; the final status is 'completed' only if
\* every stage finished without an exception.
C13_StageExceptionGivesFailedState ==
    /\ (ingest.node \in {"END", "raised"} /\ ingest.raised # "") =>
          /\ ingest.node = "END"
          /\ ingest.state.status = "failed"
          /\ ingest.state.error # ""
    /\ (ingest.node = "END" /\ ingest.state.status = "completed") => ingest.raised = ""


---------------------------------------------------------------------------
(* Retrieval: the claims *)

\* no node of the store that was searched has a name that contains the query
NothingMatches ==
    \A i \in DOMAIN retrieval.store.nodes :
        "name" \in DOMAIN retrieval.store.nodes[i].props =>
            ~Contains(lower(retrieval.store.nodes[i].props["name"]),
                      lower(retrieval.query))

\* C20: retrieve_subgraph never raises: if the store cannot be connected to,
\* a query fails, or nothing matches, it returns an empty list, and
\* search_knowledge_graph then returns the 'No relevant information found'
\* sentinel rather than an error.
C20_RetrievalDegradesToSentinel ==
    retrieval.pc = "done" =>
        /\ ~retrieval.result.raised
        /\ (retrieval.outcome # "ok" \/ NothingMatches) =>
              /\ Len(retrieval.result.value) = 0
              /\ Len(retrieval.answer) = 1
              /\ retrieval.answer[1] = Sentinel

C20_Witness ==
    /\ retrieval.pc = "done"
    /\ retrieval.outcome = "graph query fails"
    /\ ~NothingMatches
    /\ \E e \in retrieval.store.rels : e.type = "MENTIONS"
    /\ retrieval.answer[1] = Sentinel

---------------------------------------------------------------------------
(* The worker pool: the claims *)

\* a call of process_chunk_extraction, and with it a model call, is in flight
InFlight == {i \in DOMAIN task : task[i] = "running"}

\* C24: at every moment of extract_from_chunks at most 5 model calls are in
\* flight, for any number of chunks, and each chunk's model call is started
\* exactly once: never twice, and once when the call has returned.
C24_AtMostFiveInFlight ==
    /\ Cardinality(InFlight) <= max_workers
    /\ \A i \in DOMAIN started : started[i] <= 1
    /\ epc = "returned" => \A i \in DOMAIN started : started[i] = 1

\* the pool is full: max_workers calls in flight and a submitted chunk waiting
C24_Witness ==
    /\ Cardinality(InFlight) = max_workers
    /\ \E i \in DOMAIN task : task[i] = "queued"
    /\ Len(chunk_ids) > max_workers

\* the canonical name canonicalize_entities gives a normalized key in a list
CanonicalNames(res_list) ==
    {<<NormName(e.name), e.name>> :
        e \in {FlatEntities(canonicalize_entities(res_list))[k] :
                  k \in DOMAIN FlatEntities(res_list)}}

\* the first literal of a normalized key in a list, in iteration order
FirstLiterals(res_list) ==
    LET flat == FlatEntities(res_list)
    IN  {<<NormName(flat[k].name), flat[k].name>> :
            k \in {k \in DOMAIN flat :
                      \A j \in 1..(k - 1) : NormName(flat[j].name) # NormName(flat[k].name)}}

\* C25: the list returned by extract_from_chunks is in task-completion
\* order, not input order: any finished task is handed out next, whatever
\* its place in the input, and the canonical names are the first literals of
\* the list in that order; so two calls on the same chunks with the same
\* replies can yield different canonical names for one normalized key.
C25_CompletionOrderDecides ==
    /\ \A i \in DOMAIN task :
          (epc = "collect" /\ task[i] = "done" /\ i \notin yielded) => ENABLED Collect(i)
    /\ epc = "returned" => CanonicalNames(results) = FirstLiterals(results)

\* two calls with the same replies and different canonical names for a key
C25_Witness ==
    /\ epc = "returned"
    /\ prior # <<>>
    /\ prior[1].llm = llm
    /\ \E a \in CanonicalNames(prior[1].results), b \in CanonicalNames(results) :
          a[1] = b[1] /\ a[2] # b[2]

---------------------------------------------------------------------------
(* The text cleaner: the claim *)

\* C21: clean_text is total and idempotent: for every input string x,
\* clean_text(clean_text(x)) == clean_text(x), also when a removed special
\* character sits between two whitespace characters.
C21_CleanTextIdempotent ==
    cleaning.pc = "recleaned" => cleaning.twice = cleaning.once

---------------------------------------------------------------------------
(* canonicalize_entities applied twice: the claim *)

\* the entity names of a list, result by result
EntityNames(res_list) ==
    [i \in DOMAIN res_list |->
        [j \in DOMAIN res_list[i].entities |-> res_list[i].entities[j].name]]

\* the relation endpoints of a list, result by result
Endpoints(res_list) ==
    [i \in DOMAIN res_list |->
        [j \in DOMAIN res_list[i].relations |->
            <<res_list[i].relations[j].source, res_list[i].relations[j].target>>]]

\* C28: canonicalize_entities is idempotent on a batch: applied a second
\* time to its own output, in the same result order, it changes no entity
\* name and no relation endpoint.
C28_CanonicalizeIdempotent ==
    stage = "recanonicalized" =>
        /\ EntityNames(extraction_results) = EntityNames(before)
        /\ Endpoints(extraction_results) = Endpoints(before)

\* the second pass met an endpoint that differs from the canonical name of
\* its key (the entity comes in a later result) and two entities of one key
C28_Witness ==
    /\ stage = "recanonicalized"
    /\ \E i, k \in DOMAIN before :
          /\ i < k
          /\ \E r \in DOMAIN before[i].relations, e \in DOMAIN before[k].entities :
                /\ NormName(before[i].relations[r].source) = NormName(before[k].entities[e].name)
                /\ before[i].relations[r].source # before[k].entities[e].name
    /\ \E a, b \in DOMAIN FlatEntities(before) :
          a # b /\ FlatEntities(before)[a].name = FlatEntities(before)[b].name

---------------------------------------------------------------------------
(* The relation-write step: the claim *)

\* the relation queries the store was sent
RelationSteps == {i \in DOMAIN graph.issued : graph.issued[i].q[1] = "relations"}

\* a row one of whose endpoint names no node of the store has
Unmatched(g, row) == MatchNamed(g, row.source) = {} \/ MatchNamed(g, row.target) = {}

\* C26: no dangling relations: the relation-write step never creates a node;
\* a relation whose source or target name matches no existing node is a
\* no-op, so in every reachable store state both endpoints of every edge are
\* existing nodes, and the node set after the relation step equals the node
\* set before it.
C26_NoDanglingRelations ==
    /\ \A r \in graph.rels : r.src \in DOMAIN graph.nodes /\ r.dst \in DOMAIN graph.nodes
    /\ \A i \in RelationSteps :
          LET step == graph.issued[i]
          IN  /\ step.left.nodes = step.found.nodes
              /\ (\A k \in DOMAIN step.batch : Unmatched(step.found, step.batch[k]))
                    => step.left.rels = step.found.rels

\* a relation step on a store that has the source of a row and not its target
C26_Witness ==
    \E i \in RelationSteps :
        \E k \in DOMAIN graph.issued[i].batch :
            /\ MatchNamed(graph.issued[i].found, graph.issued[i].batch[k].source) # {}
            /\ MatchNamed(graph.issued[i].found, graph.issued[i].batch[k].target) = {}

---------------------------------------------------------------------------
(* build_node and the chunking: the claims *)

\* the Document nodes of the store with a given id
DocumentNodes(d_id) == MatchLabelled(graph, "Document", "id", d_id)

\* C30: build_node partitions a multi-document batch correctly:
\* build_pure_graph is called exactly once per doc id, in doc_ids order, with
\* exactly the chunks whose doc_id is that document and exactly the
\* extraction results whose chunk_id belongs to one of those chunks; every
\* extraction result with a known chunk_id goes to exactly one document, and
\* a failure while building document k leaves documents 1..k-1 written,
\* documents k+1.. unbuilt and the status 'failed'.
C30_BuildNodePartitions ==
    ingest.node = "END" =>
        LET st == ingest.state
            calls == ingest.calls
            failed == \E k \in DOMAIN calls : calls[k].raised
        IN  /\ Len(calls) <= Len(st.doc_ids)
            /\ \A k \in DOMAIN calls :
                  /\ calls[k].doc_id = st.doc_ids[k]
                  /\ \A c \in DOMAIN st.chunks :
                        (st.chunks[c].doc_id = st.doc_ids[k])
                            <=> (\E x \in DOMAIN calls[k].chunks :
                                    calls[k].chunks[x] = st.chunks[c])
                  /\ Len(calls[k].chunks)
                        = Cardinality({c \in DOMAIN st.chunks :
                                          st.chunks[c].doc_id = st.doc_ids[k]})
                  /\ \A r \in DOMAIN st.extraction_results :
                        (\E x \in DOMAIN calls[k].chunks :
                              calls[k].chunks[x].id = st.extraction_results[r].chunk_id)
                            <=> (\E y \in DOMAIN calls[k].results :
                                    calls[k].results[y].chunk_id
                                        = st.extraction_results[r].chunk_id)
                  /\ Len(calls[k].results) <= Len(st.extraction_results)
                  /\ calls[k].raised => k = Len(calls)
            /\ \A r \in DOMAIN st.extraction_results :
                  Cardinality({k \in DOMAIN st.doc_ids :
                                  \E c \in DOMAIN st.chunks :
                                      /\ st.chunks[c].id = st.extraction_results[r].chunk_id
                                      /\ st.chunks[c].doc_id = st.doc_ids[k]}) = 1
            /\ ~failed => Len(calls) = Len(st.doc_ids) /\ st.status = "completed"
            /\ failed =>
                  /\ st.status = "failed"
                  /\ \A k \in 1..(Len(calls) - 1) : DocumentNodes(st.doc_ids[k]) # {}
                  /\ \A k \in (Len(calls) + 1)..Len(st.doc_ids) :
                        DocumentNodes(st.doc_ids[k]) = {}

\* three documents, the second of which fails to build after its Document
\* node was written; the first and the second have an extraction result
C30_Witness ==
    /\ ingest.node = "END"
    /\ Len(ingest.state.doc_ids) = 3
    /\ Len(ingest.calls) = 2
    /\ ingest.calls[2].raised
    /\ ingest.calls[1].results # <<>>
    /\ ingest.calls[2].results # <<>>
    /\ ingest.state.status = "failed"
    /\ DocumentNodes(ingest.state.doc_ids[2]) # {}
    /\ DocumentNodes(ingest.state.doc_ids[3]) = {}

\* the ids of a list of chunks are pairwise distinct
DistinctIds(chunks) ==
    \A a, b \in DOMAIN chunks : a # b => chunks[a].id # chunks[b].id

\* C27: every chunk produced by chunking, in both entry points (chunk_node
\* and DocumentPipeline.chunk_text), carries an identifier distinct from every
\* other chunk's identifier and a doc_id field equal to the identifier of the
\* document whose text it was cut from; chunk_node returns exactly one doc id
\* per input document, in input order.
C27_ChunksUniqueAndTagged ==
    /\ ingest.node \in {"extract", "build", "END"} =>
          LET st == ingest.state
          IN  /\ DistinctIds(st.chunks)
              /\ Len(st.doc_ids) = Len(st.raw_documents)
              /\ \A a, b \in DOMAIN st.doc_ids : a # b => st.doc_ids[a] # st.doc_ids[b]
              /\ \A c \in DOMAIN st.chunks :
                    /\ "doc_id" \in DOMAIN st.chunks[c]
                    /\ \E k \in DOMAIN st.doc_ids :
                          /\ st.chunks[c].doc_id = st.doc_ids[k]
                          /\ st.chunks[c] \in
                                {chunk_text(st.cleaned_documents[k], k)[x] @@ [doc_id |-> st.doc_ids[k]] :
                                    x \in DOMAIN chunk_text(st.cleaned_documents[k], k)}
    /\ pipeline.pc \in {"extract", "canonicalize", "validate", "build"} =>
          /\ DistinctIds(pipeline.chunks)
          /\ \A c \in DOMAIN pipeline.chunks :
                /\ "doc_id" \in DOMAIN pipeline.chunks[c]
                /\ pipeline.chunks[c].doc_id = pipeline.doc_id

---------------------------------------------------------------------------
(* Join, then merge: the claim *)

\* an extraction task of the document is submitted and has not finished
Unfinished == {i \in DOMAIN task : task[i] \in {"queued", "running"}}

\* a step of a worker thread: a task starts or finishes
WorkerStep ==
    \E i \in DOMAIN task :
        /\ task[i] \in {"queued", "running"}
        /\ i \in DOMAIN task'
        /\ task'[i] # task[i]

\* C23: join-then-merge: within one document's pipeline, canonicalization,
\* validation and every graph-store write begin only after every extraction
\* task of that document has finished (no extraction task is in flight when
\* the canonical map is built), and worker tasks never write the shared
\* results list; only the submitting thread appends to it.
C23_JoinThenMerge ==
    /\ [][/\ (pipeline'.pc \in {"canonicalize", "validate", "build"}) => Unfinished' = {}
          /\ (graph' # graph) => Unfinished = {}
          /\ WorkerStep => results' = results]_vars
    /\ [](pipeline.pc \in {"canonicalize", "validate", "build"} => Unfinished = {})

\* the store was written for a document of two chunks whose tasks ran at the
\* same time and were collected out of input order
C23_Witness ==
    /\ pipeline.pc = "returned"
    /\ graph.nodes # <<>>
    /\ Len(chunk_ids) = 2
    /\ Len(pipeline.outputs[1]) = 2
    /\ pipeline.outputs[1][1].chunk_id = chunk_ids[2]

---------------------------------------------------------------------------
(* End to end: the claims *)

\* the store has failed no write it was sent
NoStoreFailure == \A i \in DOMAIN graph.issued : ~graph.issued[i].failed

\* the connection lines that name both A and B, whatever they print as the
\* neighbor's type
LinesNamingBoth ==
    {"- " \o Str(ends[1]) \o " --[" \o type \o "]--> " \o Str(ends[2])
          \o " (" \o neighbor_type \o ")" :
        ends \in {<<Acme, Bob>>, <<Bob, Acme>>},
        type \in {"USES", "RELATED_TO"},
        neighbor_type \in {NoneVal, "ORG", "PERSON"}}

\* C22: end to end on an initially empty store: if ingestion of one document
\* succeeds and its extraction yields two entities A and B (A # B after
\* canonicalization) and a relation A -> B of some type, then
\* retrieve_subgraph with a query that is a case-insensitive substring of A's
\* name returns at least one graph-connection line that names both A and B.
C22_EndToEndConnection ==
    (/\ pipeline.pc = "returned"
     /\ pipeline.results.status = "success"
     /\ pipeline.first = <<>>
     /\ NoStoreFailure
     /\ retrieval.pc = "done"
     /\ retrieval.outcome = "ok"
     /\ retrieval.store = graph
     /\ Contains(lower(Acme), lower(retrieval.query)))
        => \E k \in DOMAIN retrieval.result.value :
              retrieval.result.value[k] \in LinesNamingBoth

Labelled(g, label) == {i \in DOMAIN g.nodes : g.nodes[i].label = label}

NamedNodes(g) == {i \in DOMAIN g.nodes : "name" \in DOMAIN g.nodes[i].props}

TypedEdges(g) == {e \in g.rels : e.type \notin {"HAS_SECTION", "MENTIONS"}}

\* C29: re-ingesting the same document text: two successful
\* process_documents runs over the same text with the same extraction
\* outputs create two distinct Document nodes and disjoint sets of Section
\* nodes (fresh ids each run), while the set of entity nodes and the set of
\* relation edges are the same as after the first run; each entity then has
\* MENTIONS links from sections of both runs.
C29_ReingestSameText ==
    (/\ pipeline.pc = "returned"
     /\ pipeline.results.status = "success"
     /\ pipeline.first # <<>>
     /\ NoStoreFailure)
        => LET old == pipeline.first[1].store
               oldSections == Labelled(old, "Section")
               newSections == Labelled(graph, "Section") \ oldSections
           IN  /\ Cardinality(Labelled(old, "Document")) = 1
               /\ Cardinality(Labelled(graph, "Document")) = 2
               /\ Cardinality(newSections) = Cardinality(oldSections)
               /\ \A a \in oldSections, b \in newSections :
                     graph.nodes[a].props["id"] # graph.nodes[b].props["id"]
               /\ NamedNodes(graph) = NamedNodes(old)
               /\ \A i \in NamedNodes(old) : graph.nodes[i] = old.nodes[i]
               /\ TypedEdges(graph) = TypedEdges(old)
               /\ \A e \in NamedNodes(graph) :
                     /\ \E a \in oldSections :
                           [src |-> a, dst |-> e, type |-> "MENTIONS"] \in graph.rels
                     /\ \E b \in newSections :
                           [src |-> b, dst |-> e, type |-> "MENTIONS"] \in graph.rels

=============================================================================
